---- MODULE Spec2Model ----
(***************************************************************************)
(* Model of the OVN/OVS network-state reconciliation engine of            *)
(* orchestrator.py (NetworkReconciler, OVNManager) and of the             *)
(* desired-state validation of network_config_manager.py.                 *)
(*                                                                         *)
(* The external stores (container runtime, kernel links, the virtual      *)
(* switch's port table, the northbound database) are the state.  Every    *)
(* handler of the source is an operator that threads a run context        *)
(* through the external commands it issues, in source order; an action    *)
(* applies one whole handler call, possibly cut short by a kill or with   *)
(* one command failing.                                                   *)
(***************************************************************************)
EXTENDS Integers, Sequences, FiniteSets, TLC

VARIABLES
    cfg,      \* the loaded desired-state model (NetworkConfigManager), fixed
    docker,   \* container runtime: workload name -> "running" | "stopped"
    veth,     \* kernel veth pairs: host-end name -> [loc, mac, ip, up]
    ovs,      \* br-int port table: port name -> interface external_ids
    nb,       \* northbound database: [lr, ls, lrp, lsp, routes]
    last,     \* what the last handler call did (return value, commands)
    budget,   \* remaining calls / out-of-band changes / injected faults
    active_processes,  \* traffic generator: the child processes it tracks
    thread    \* traffic generator: worker -> [pc, proc], its position and child

vars == <<cfg, docker, veth, ovs, nb, last, budget, active_processes, thread>>

(***************************************************************************)
(* Bounds of the exploration.                                              *)
(***************************************************************************)
MaxOps == 2
MaxEnv == 1
MaxFaults == 1
MaxRandMacs == 1

(***************************************************************************)
(* Python string operations used by the source.                            *)
(***************************************************************************)
\* s[:n]
PyPrefix(s, n) == IF Len(s) <= n THEN s ELSE SubSeq(s, 1, n)

\* s[n:]
PyFrom(s, n) == IF Len(s) <= n THEN "" ELSE SubSeq(s, n + 1, Len(s))

\* s[-1]
PyLast(s) == SubSeq(s, Len(s), Len(s))

\* s.startswith(p)
StartsWith(s, p) == Len(s) >= Len(p) /\ SubSeq(s, 1, Len(p)) = p

\* a in b, for strings
PyIn(a, b) ==
    \E i \in 1..(Len(b) - Len(a) + 1) : SubSeq(b, i, i + Len(a) - 1) = a

\* a in stdout, where stdout is given as the set of its lines (a command
\* prints its rows sorted) and a holds no newline
InOutput(a, out) == \E line \in out : PyIn(a, line)

\* position of the first occurrence of the one-character string ch in s, or 0
RECURSIVE FindFrom(_, _, _)
FindFrom(s, ch, i) ==
    IF i > Len(s) THEN 0
    ELSE IF SubSeq(s, i, i) = ch THEN i
    ELSE FindFrom(s, ch, i + 1)

\* s.split(ch)
RECURSIVE PySplit(_, _)
PySplit(s, ch) ==
    LET k == FindFrom(s, ch, 1) IN
    IF k = 0 THEN <<s>>
    ELSE <<SubSeq(s, 1, k - 1)>> \o PySplit(PyFrom(s, k), ch)

\* s.split(): whitespace-separated, empty fields dropped
PyWords(s) == SelectSeq(PySplit(s, " "), LAMBDA t : t # "")

\* s.strip('()')
RECURSIVE StripParens(_)
StripParens(s) ==
    IF s = "" THEN s
    ELSE IF SubSeq(s, 1, 1) \in {"(", ")"} THEN StripParens(PyFrom(s, 1))
    ELSE IF PyLast(s) \in {"(", ")"} THEN StripParens(SubSeq(s, 1, Len(s) - 1))
    ELSE s

Digits == "0123456789"
HexDigits == "0123456789abcdef"
\* the ASCII characters from space (32) to underscore (95), with a blank
\* standing at the places of the double quote and the backslash
AsciiLow == " ! #$%&'()*+,-./0123456789:;<=>?@ABCDEFGHIJKLMNOPQRSTUVWXYZ[ ]^_"

\* ord(ch)
Ord(ch) ==
    IF FindFrom("abcdefghijklmnopqrstuvwxyz", ch, 1) > 0
    THEN 96 + FindFrom("abcdefghijklmnopqrstuvwxyz", ch, 1)
    ELSE IF FindFrom(AsciiLow, ch, 1) > 0 THEN 31 + FindFrom(AsciiLow, ch, 1)
    ELSE 126

\* the length of the longest common prefix of a and b, which lies in lo..hi
RECURSIVE CommonPrefix(_, _, _, _)
CommonPrefix(a, b, lo, hi) ==
    IF lo >= hi THEN lo
    ELSE LET mid == (lo + hi + 1) \div 2 IN
         IF SubSeq(a, 1, mid) = SubSeq(b, 1, mid) THEN CommonPrefix(a, b, mid, hi)
         ELSE CommonPrefix(a, b, lo, mid - 1)

\* a < b, for strings
StrLess(a, b) ==
    LET k == CommonPrefix(a, b, 0, IF Len(a) < Len(b) THEN Len(a) ELSE Len(b)) IN
    IF k = Len(b) THEN FALSE
    ELSE IF k = Len(a) THEN TRUE
    ELSE Ord(SubSeq(a, k + 1, k + 1)) < Ord(SubSeq(b, k + 1, k + 1))

\* sorted(S), for a finite set of strings
RECURSIVE SortSet(_)
SortSet(S) ==
    IF S = {} THEN <<>>
    ELSE LET m == CHOOSE x \in S : \A y \in S \ {x} : StrLess(x, y)
         IN <<m>> \o SortSet(S \ {m})

\* stdout.strip().split('\n')
PyLines(out) == IF out = {} THEN <<"">> ELSE SortSet(out)

\* stdout.strip() of a command that prints one value
OutText(out) == IF out = {} THEN "" ELSE CHOOSE line \in out : TRUE

\* int(s) of a decimal string; -1 when s is no decimal number
RECURSIVE ParseDec(_, _)
ParseDec(s, acc) ==
    IF s = "" THEN acc
    ELSE IF FindFrom(Digits, SubSeq(s, 1, 1), 1) = 0 THEN -1
    ELSE ParseDec(PyFrom(s, 1), acc * 10 + FindFrom(Digits, SubSeq(s, 1, 1), 1) - 1)

PyInt(s) == IF s = "" THEN -1 ELSE ParseDec(s, 0)

\* str(n) for n >= 0
RECURSIVE PyStr(_)
PyStr(n) ==
    IF n < 10 THEN SubSeq(Digits, n + 1, n + 1)
    ELSE PyStr(n \div 10) \o SubSeq(Digits, (n % 10) + 1, (n % 10) + 1)

\* f"{n:02x}"
RECURSIVE HexStr(_)
HexStr(n) ==
    IF n < 16 THEN SubSeq(HexDigits, n + 1, n + 1)
    ELSE HexStr(n \div 16) \o SubSeq(HexDigits, (n % 16) + 1, (n % 16) + 1)

Hex02(n) == IF n < 16 THEN "0" \o HexStr(n) ELSE HexStr(n)

(***************************************************************************)
(* ipaddress.ip_network, for the dotted IPv4 CIDR strings of the model.    *)
(***************************************************************************)
Pow2(k) == CASE k = 0 -> 1 [] k = 1 -> 2 [] k = 2 -> 4 [] k = 3 -> 8 [] k = 4 -> 16
             [] k = 5 -> 32 [] k = 6 -> 64 [] k = 7 -> 128 [] OTHER -> 256

\* number of network bits of a prefix of length len that fall in octet i
NetBits(len, i) ==
    IF len >= 8 * i THEN 8 ELSE IF len <= 8 * (i - 1) THEN 0 ELSE len - 8 * (i - 1)

\* octet o with all but its k leading bits cleared
MaskOctet(o, k) == o - (o % Pow2(8 - k))

\* ip_network(cidr): ok is FALSE where Python raises ValueError
ParseNet(cidr) ==
    LET parts == PySplit(cidr, "/")
        octs  == IF Len(parts) = 2 THEN PySplit(parts[1], ".") ELSE <<>>
        o     == [i \in 1..Len(octs) |-> PyInt(octs[i])]
        len   == IF Len(parts) = 2 THEN PyInt(parts[2]) ELSE -1
        wellformed == /\ Len(parts) = 2
                      /\ Len(octs) = 4
                      /\ \A i \in 1..4 : o[i] >= 0 /\ o[i] <= 255
                      /\ len >= 0 /\ len <= 32
    IN  IF ~wellformed THEN [ok |-> FALSE, o |-> <<0, 0, 0, 0>>, len |-> 0]
        ELSE [ok  |-> \A i \in 1..4 : MaskOctet(o[i], NetBits(len, i)) = o[i],
              o   |-> o,
              len |-> len]

\* a.overlaps(b): the two networks agree on the shorter prefix
NetOverlaps(a, b) ==
    LET len == IF a.len <= b.len THEN a.len ELSE b.len IN
    \A i \in 1..4 : MaskOctet(a.o[i], NetBits(len, i)) = MaskOctet(b.o[i], NetBits(len, i))

\* the first host of network n, with its prefix length
FirstHost(n) ==
    PyStr(n.o[1]) \o "." \o PyStr(n.o[2]) \o "." \o PyStr(n.o[3]) \o "."
        \o PyStr(n.o[4] + 1) \o "/" \o PyStr(n.len)

\* str(list(network.hosts())[0]) + "/" + str(network.prefixlen), prefix <= 30

(***************************************************************************)
(* Finite maps (Python dicts, database tables).                            *)
(***************************************************************************)
MapPut(f, k, v) == (k :> v) @@ f
MapDel(f, k) == [x \in (DOMAIN f) \ {k} |-> f[x]]
Has(f, k) == k \in DOMAIN f

(***************************************************************************)
(* The external stores and the effect of each external command on them.    *)
(* A command is [op, a, b, x]; its result is [w, ok, out]: the stores      *)
(* after it, whether it exited 0, and the lines of its stdout.             *)
(***************************************************************************)
Cmd(op, a, b, x) == [op |-> op, a |-> a, b |-> b, x |-> x]

Unset == "<unset>"
NoExt == [iface_id |-> "", tenant_id |-> "", container |-> "", vpc_id |-> ""]
NewLsp(sw) == [sw |-> sw, type |-> "", addr |-> "", ps |-> Unset, opts |-> "",
               tenant |-> "", vpc |-> "", created_at |-> "", created_by |-> ""]

\* ovn-nbctl prints "<uuid> (<name>)" for each row of a list command
NbLines(names) == {"3f2a1b0c-9d4e-4f6a-8b7c-5d6e7f8a9b0c (" \o n \o ")" : n \in names}

Running(w, c) == Has(w.docker, c) /\ w.docker[c].st = "running"
\* the running container whose init process has this pid
NsOwners(w, pid) == {c \in DOMAIN w.docker : Running(w, c) /\ w.docker[c].pid = pid}
\* the veth pairs whose peer end (eth1) lives in namespace loc
PairsAt(w, loc) == {v \in DOMAIN w.veth : w.veth[v].loc = loc}
HasEth1(w, c) == PairsAt(w, c) # {}

Res(w, ok, out) == [w |-> w, ok |-> ok, out |-> out, err |-> IF ok THEN "" ELSE "error"]
Fail(w) == Res(w, FALSE, {})
Done(w) == Res(w, TRUE, {})

\* a command run inside the namespace of pid on the eth1 found there
InNs(w, pid, upd(_)) ==
    IF NsOwners(w, pid) = {} THEN Fail(w)
    ELSE LET c == CHOOSE c \in NsOwners(w, pid) : TRUE IN
         IF ~HasEth1(w, c) THEN Fail(w)
         ELSE LET v == CHOOSE v \in PairsAt(w, c) : TRUE IN
              Done([w EXCEPT !.veth = upd(v)])

SetLsp(w, p, upd(_)) ==
    IF ~Has(w.nb.lsp, p) THEN Fail(w)
    ELSE Done([w EXCEPT !.nb.lsp[p] = upd(@)])

ApplyDocker(w, c) ==
    CASE c.op = "docker-running" ->
            IF ~Has(w.docker, c.a) \/ w.docker[c.a].st = "absent" THEN Fail(w)
            ELSE Res(w, TRUE, {IF Running(w, c.a) THEN "true" ELSE "false"})
      [] c.op = "docker-pid" ->
            IF ~Has(w.docker, c.a) \/ w.docker[c.a].st = "absent" THEN Fail(w)
            ELSE Res(w, TRUE, {IF Running(w, c.a) THEN w.docker[c.a].pid ELSE "0"})
      [] c.op = "docker-ps" ->
            Res(w, TRUE, {"ovs", "ovn-central"} \cup {d \in DOMAIN w.docker : Running(w, d)})
      [] c.op \in {"docker-exec-link-show", "docker-exec-addr-show"} ->
            Res(w, Running(w, c.a) /\ HasEth1(w, c.a), {})
      [] OTHER -> Fail(w)

ApplyOvs(w, c) ==
    CASE c.op = "ovs-list-ports" -> Res(w, TRUE, DOMAIN w.ovs)
      [] c.op = "ovs-add-port" ->
            IF Has(w.ovs, c.a) THEN Res(w, c.b = "may-exist", {})
            ELSE Done([w EXCEPT !.ovs = MapPut(@, c.a, c.x)])
      [] c.op = "ovs-del-port" ->
            IF Has(w.ovs, c.a) THEN Done([w EXCEPT !.ovs = MapDel(@, c.a)]) ELSE Fail(w)
      [] c.op = "ovs-set-iface" ->
            IF ~Has(w.ovs, c.a) THEN Fail(w)
            ELSE Done([w EXCEPT !.ovs[c.a] =
                        [iface_id  |-> c.x.iface_id,
                         tenant_id |-> c.x.tenant_id,
                         container |-> c.x.container,
                         vpc_id    |-> IF c.x.vpc_id # "" THEN c.x.vpc_id ELSE @.vpc_id]])
      [] OTHER -> Fail(w)

ApplyLink(w, c) ==
    CASE c.op = "ip-link-del" ->
            IF Has(w.veth, c.a) THEN Done([w EXCEPT !.veth = MapDel(@, c.a)]) ELSE Fail(w)
      [] c.op = "ip-link-add" ->
            IF Has(w.veth, c.a) \/ PairsAt(w, "host") # {} THEN Fail(w)
            ELSE Done([w EXCEPT !.veth = MapPut(@, c.a,
                        [loc |-> "host", mac |-> c.x, ip |-> "", up |-> FALSE])])
      [] c.op = "ip-link-netns" ->
            IF PairsAt(w, "host") = {} \/ NsOwners(w, c.b) = {} THEN Fail(w)
            ELSE LET v == CHOOSE v \in PairsAt(w, "host") : TRUE
                     t == CHOOSE t \in NsOwners(w, c.b) : TRUE
                 IN IF HasEth1(w, t) THEN Fail(w)
                    ELSE Done([w EXCEPT !.veth[v].loc = t])
      [] c.op \in {"ip-link-up", "ethtool"} -> Res(w, Has(w.veth, c.a), {})
      [] c.op = "ns-link-del" ->
            InNs(w, c.b, LAMBDA v : MapDel(w.veth, v))
      [] c.op = "ns-set-mac" ->
            InNs(w, c.b, LAMBDA v : [w.veth EXCEPT ![v].mac = c.x])
      [] c.op = "ns-addr-add" ->
            InNs(w, c.b, LAMBDA v : [w.veth EXCEPT ![v].ip = c.x])
      [] c.op = "ns-link-up" ->
            InNs(w, c.b, LAMBDA v : [w.veth EXCEPT ![v].up = TRUE])
      [] c.op \in {"ns-route-add", "ns-ethtool"} ->
            InNs(w, c.b, LAMBDA v : w.veth)
      [] OTHER -> Fail(w)

ApplyNb(w, c) ==
    CASE c.op = "lr-list" -> Res(w, TRUE, NbLines(DOMAIN w.nb.lr))
      [] c.op = "ls-list" -> Res(w, TRUE, NbLines(DOMAIN w.nb.ls))
      [] c.op = "lrp-list" ->
            IF ~Has(w.nb.lr, c.a) THEN Fail(w)
            ELSE Res(w, TRUE, NbLines({p \in DOMAIN w.nb.lrp : w.nb.lrp[p].lr = c.a}))
      [] c.op = "lsp-list" ->
            IF ~Has(w.nb.ls, c.a) THEN Fail(w)
            ELSE Res(w, TRUE, NbLines({p \in DOMAIN w.nb.lsp : w.nb.lsp[p].sw = c.a}))
      [] c.op = "lr-route-list" ->
            IF ~Has(w.nb.lr, c.a) THEN Fail(w)
            ELSE LET rs == {r \in w.nb.routes : r.lr = c.a} IN
                 Res(w, TRUE,
                     IF rs = {} THEN {}
                     ELSE {"IPv4 Routes", "Route Table <main>:"} \cup
                          {"  " \o r.prefix \o "  " \o r.nexthop \o " dst-ip" : r \in rs})
      [] c.op = "lr-add" ->
            IF Has(w.nb.lr, c.a) THEN Fail(w)
            ELSE Done([w EXCEPT !.nb.lr = MapPut(@, c.a,
                        [comment |-> "", tenant |-> "", vpc |-> ""])])
      [] c.op = "ls-add" ->
            IF Has(w.nb.ls, c.a) THEN Fail(w)
            ELSE Done([w EXCEPT !.nb.ls = MapPut(@, c.a,
                        [subnet |-> "", tenant |-> "", vpc |-> "", tier |-> ""])])
      [] c.op = "lr-set" ->
            IF ~Has(w.nb.lr, c.a) THEN Fail(w)
            ELSE Done([w EXCEPT !.nb.lr[c.a][c.b] = c.x])
      [] c.op = "ls-set" ->
            IF ~Has(w.nb.ls, c.a) THEN Fail(w)
            ELSE Done([w EXCEPT !.nb.ls[c.a][c.b] = c.x])
      [] c.op = "lrp-add" ->
            IF ~Has(w.nb.lr, c.b) \/ Has(w.nb.lrp, c.a) THEN Fail(w)
            ELSE Done([w EXCEPT !.nb.lrp = MapPut(@, c.a,
                        [lr |-> c.b, mac |-> c.x.mac, ip |-> c.x.ip])])
      [] c.op = "lsp-add" ->
            IF ~Has(w.nb.ls, c.b) \/ Has(w.nb.lsp, c.a) THEN Fail(w)
            ELSE Done([w EXCEPT !.nb.lsp = MapPut(@, c.a, NewLsp(c.b))])
      [] c.op = "lsp-del" ->
            IF ~Has(w.nb.lsp, c.a) THEN Fail(w)
            ELSE Done([w EXCEPT !.nb.lsp = MapDel(@, c.a)])
      [] c.op = "lsp-get-addresses" ->
            IF ~Has(w.nb.lsp, c.a) THEN Fail(w)
            ELSE Res(w, TRUE, IF w.nb.lsp[c.a].addr = "" THEN {} ELSE {w.nb.lsp[c.a].addr})
      [] c.op = "lsp-set-type" -> SetLsp(w, c.a, LAMBDA r : [r EXCEPT !.type = c.x])
      [] c.op = "lsp-set-addresses" -> SetLsp(w, c.a, LAMBDA r : [r EXCEPT !.addr = c.x])
      [] c.op = "lsp-set-options" -> SetLsp(w, c.a, LAMBDA r : [r EXCEPT !.opts = c.x])
      [] c.op = "lsp-set-port-security" -> SetLsp(w, c.a, LAMBDA r : [r EXCEPT !.ps = c.x])
      [] c.op = "lsp-set-ext" -> SetLsp(w, c.a, LAMBDA r : [r EXCEPT ![c.b] = c.x])
      [] c.op = "lr-route-add" ->
            IF ~Has(w.nb.lr, c.a) THEN Fail(w)
            ELSE IF \E r \in w.nb.routes : r.lr = c.a /\ r.prefix = c.x.prefix
            \* the control plane's "duplicate" error
            THEN [Fail(w) EXCEPT !.err = "duplicate"]
            ELSE Done([w EXCEPT !.nb.routes = @ \cup
                        {[lr |-> c.a, prefix |-> c.x.prefix, nexthop |-> c.x.nexthop]}])
      [] OTHER -> Fail(w)

DockerOps == {"docker-running", "docker-pid", "docker-ps", "docker-exec-link-show",
              "docker-exec-addr-show"}
\* commands that only read a store
ReadOps == DockerOps \cup {"ovs-list-ports", "lr-list", "ls-list", "lrp-list",
                           "lsp-list", "lr-route-list", "lsp-get-addresses"}

Apply(w, c) ==
    IF c.op \in DockerOps THEN ApplyDocker(w, c)
    ELSE IF c.op \in {"ovs-list-ports", "ovs-add-port", "ovs-del-port", "ovs-set-iface"}
    THEN ApplyOvs(w, c)
    ELSE IF c.op \in {"ip-link-del", "ip-link-add", "ip-link-netns", "ip-link-up", "ethtool",
                      "ns-link-del", "ns-set-mac", "ns-addr-add", "ns-link-up",
                      "ns-route-add", "ns-ethtool"}
    THEN ApplyLink(w, c)
    ELSE IF c.op = "restart-agent" THEN Done(w)
    ELSE ApplyNb(w, c)

(***************************************************************************)
(* The run context of one handler call: the stores, the number of          *)
(* external commands issued, the mutating commands issued (in order), the  *)
(* exit status and stdout of the last command, and the fault of this call: *)
(* none, one command exiting non-zero ("fail"), or the process killed      *)
(* before its at-th command ("kill").                                      *)
(***************************************************************************)
NoFault == [kind |-> "none", at |-> 0]

Ctx(w, f) == [w |-> w, n |-> 0, log |-> <<>>, dead |-> FALSE, ok |-> TRUE,
              out |-> {}, err |-> "", f |-> f, hit |-> FALSE, fop |-> "", ret |-> "none"]

\* the result r of command c enters the run context; failed: the command is
\* the one made to exit non-zero
Ran(s, c, r, failed) ==
    [s EXCEPT !.w = r.w, !.n = @ + 1, !.ok = r.ok, !.out = r.out, !.err = r.err,
              !.hit = failed \/ @, !.fop = IF failed THEN c.op ELSE @,
              !.log = IF c.op \in ReadOps THEN @ ELSE Append(@, <<c.op, c.a>>)]

\* subprocess.run(cmd): one external command
Exec(s, c) ==
    IF s.dead THEN s
    ELSE IF s.f.kind = "kill" /\ s.f.at = s.n + 1 THEN
        [s EXCEPT !.dead = TRUE, !.hit = TRUE, !.ok = FALSE, !.out = {}, !.err = "killed",
                  !.fop = c.op]
    ELSE IF s.f.kind = "fail" /\ s.f.at = s.n + 1 THEN Ran(s, c, Fail(s.w), TRUE)
    ELSE Ran(s, c, Apply(s.w, c), FALSE)

\* return v / raise: the handler stops issuing commands
Ret(s, v) == [s EXCEPT !.ret = v]
Going(s) == ~s.dead /\ s.ret = "none"

\* commands run one after the other with check=True (or through run_nbctl):
\* the first that exits non-zero raises CalledProcessError
\* check=True: a non-zero exit raises CalledProcessError
Check(t) == IF ~t.dead /\ ~t.ok THEN Ret(t, "raise") ELSE t

RECURSIVE Try(_, _)
Try(s, cmds) ==
    IF cmds = <<>> \/ ~Going(s) THEN s
    ELSE Try(Check(Exec(s, Head(cmds))), Tail(cmds))

\* commands run one after the other with check=False
RECURSIVE ExecEach(_, _)
ExecEach(s, cmds) ==
    IF cmds = <<>> \/ ~Going(s) THEN s ELSE ExecEach(Exec(s, Head(cmds)), Tail(cmds))



(***************************************************************************)
(* Desired-state models (what NetworkConfigManager.load_config yields).    *)
(***************************************************************************)
Vpc(name, tenant, cidr, router, switches) ==
    [name |-> name, tenant |-> tenant, cidr |-> cidr, router |-> router,
     switches |-> switches]
Sw(name, cidr, tier) == [name |-> name, cidr |-> cidr, tier |-> tier]
Ct(name, vpc, switch, ip, mac, type) ==
    [name |-> name, host |-> "host-1", vpc |-> vpc, switch |-> switch, ip |-> ip,
     mac |-> mac, type |-> type]

VpcA == Vpc("vpc-a", "tenant-1", "10.0.0.0/16", "lr-vpc-a",
            <<Sw("ls-vpc-a-web", "10.0.1.0/24", "web"),
              Sw("ls-vpc-a-test", "10.0.4.0/24", "test")>>)
VpcB == Vpc("vpc-b", "tenant-2", "10.1.0.0/16", "lr-vpc-b",
            <<Sw("ls-vpc-b-web", "10.1.1.0/24", "web")>>)

WebA == Ct("vpc-a-web", "vpc-a", "ls-vpc-a-web", "10.0.1.10", "02:00:00:01:01:0a", "")
WebB == Ct("vpc-b-web", "vpc-b", "ls-vpc-b-web", "10.1.1.10", "02:00:00:02:01:0a", "")
NatGw == Ct("nat-gateway", "transit", "ls-transit", "192.168.100.254", "02:00:00:00:00:fe", "")

Model(vpcs, containers) ==
    [vpcs |-> vpcs, containers |-> containers, hosts |-> {"host-1"},
     gateway |-> [name |-> "lr-gateway", mac |-> "00:00:00:00:00:01"],
     transit_cidr |-> "192.168.100.0/24"]

\* one VPC, a tiered workload, a traffic generator and the NAT gateway; the
\* traffic generator's configured MAC is empty: its MAC is generated
ModelA ==
    Model(<<VpcA>>,
          <<WebA,
            Ct("traffic-gen-a", "vpc-a", "ls-vpc-a-test", "10.0.4.10", "", "traffic-generator"),
            NatGw>>)

\* config_manager.get_container_config(name): a one-element sequence, or <<>> for None
GetContainerConfig(m, name) == SelectSeq(m.containers, LAMBDA c : c.name = name)

\* OVNManager.tenant_mapping.get(vpc, "unknown")
TenantOf(m, vpc) ==
    LET hit == SelectSeq(m.vpcs, LAMBDA v : v.name = vpc) IN
    IF hit = <<>> THEN "unknown" ELSE hit[1].tenant

(***************************************************************************)
(* NetworkConfigManager.validate_config: the list of errors.               *)
(***************************************************************************)
RECURSIVE DupErrors(_, _, _, _)
DupErrors(cs, key, seen, tag) ==
    IF cs = <<>> THEN <<>>
    ELSE (IF Head(cs)[key] \in seen THEN <<<<tag, Head(cs).name>>>> ELSE <<>>)
         \o DupErrors(Tail(cs), key, seen \cup {Head(cs)[key]}, tag)

RECURSIVE CidrErrors(_, _)
CidrErrors(vs, seen) ==
    IF vs = <<>> THEN <<>>
    ELSE LET n == ParseNet(Head(vs).cidr) IN
         IF ~n.ok THEN <<<<"Invalid CIDR", Head(vs).name>>>> \o CidrErrors(Tail(vs), seen)
         ELSE [i \in 1..Len(SelectSeq(seen, LAMBDA o : NetOverlaps(n, o))) |->
                    <<"CIDR overlap", Head(vs).name>>]
              \o CidrErrors(Tail(vs), Append(seen, n))

ValidateConfig(m) ==
    DupErrors(m.containers, "ip", {}, "Duplicate IP")
    \o DupErrors(m.containers, "mac", {}, "Duplicate MAC")
    \o [i \in 1..Len(SelectSeq(m.containers, LAMBDA c : c.host \notin m.hosts)) |->
            <<"unknown host", SelectSeq(m.containers, LAMBDA c : c.host \notin m.hosts)[i].name>>]
    \o [i \in 1..Len(SelectSeq(m.containers,
                LAMBDA c : TenantOf(m, c.vpc) = "unknown" /\ c.vpc # "transit")) |->
            <<"unknown VPC", SelectSeq(m.containers,
                LAMBDA c : TenantOf(m, c.vpc) = "unknown" /\ c.vpc # "transit")[i].name>>]
    \o CidrErrors(m.vpcs, <<>>)

(***************************************************************************)
(* Topology Builder (OVNManager.setup_topology and its helpers).           *)
(***************************************************************************)
\* self.run_nbctl(args)
Nbctl(op, a, b, x) == Cmd(op, a, b, x)

\* "if name not in existing": the commands run unless the listing just read
\* (the stdout of s1) holds the name
UnlessListed(s1, name, cmds) ==
    IF ~Going(s1) \/ InOutput(name, s1.out) THEN s1 ELSE Try(s1, cmds)

\* an except clause that logs and goes on: what the block begun at s raised
\* is not raised to the caller
Swallow(s, t) == IF Going(s) /\ ~t.dead /\ t.ret = "raise" THEN Ret(t, "none") ELSE t

CreateLogicalRouter(s, name, comment, tenant_id, vpc_id) ==
    UnlessListed(Try(s, <<Nbctl("lr-list", "", "", "")>>), name,
        <<Nbctl("lr-add", name, "", "")>>
        \o (IF comment # "" THEN <<Nbctl("lr-set", name, "comment", comment)>> ELSE <<>>)
        \o (IF tenant_id # "" THEN <<Nbctl("lr-set", name, "tenant", tenant_id)>> ELSE <<>>)
        \o (IF vpc_id # "" THEN <<Nbctl("lr-set", name, "vpc", vpc_id)>> ELSE <<>>))

\* a variant of CreateLogicalSwitch: a switch is added without looking at the switches that exist
CreateLogicalSwitchBlind(s, name, subnet, tenant_id, vpc_id, tier) ==
    Try(s, <<Nbctl("ls-add", name, "", ""), Nbctl("ls-set", name, "subnet", subnet)>>)

CreateLogicalSwitch(s, name, subnet, tenant_id, vpc_id, tier) ==
    UnlessListed(Try(s, <<Nbctl("ls-list", "", "", "")>>), name,
        <<Nbctl("ls-add", name, "", "")>>
        \o (IF subnet # "" THEN <<Nbctl("ls-set", name, "subnet", subnet)>> ELSE <<>>)
        \o (IF tenant_id # "" THEN <<Nbctl("ls-set", name, "tenant", tenant_id)>> ELSE <<>>)
        \o (IF vpc_id # "" THEN <<Nbctl("ls-set", name, "vpc", vpc_id)>> ELSE <<>>)
        \o (IF tier # "" THEN <<Nbctl("ls-set", name, "tier", tier)>> ELSE <<>>))

\* a variant of ConnectRouterToSwitch: the switch's port is made before the
\* router's
ConnectSwitchPortFirst(s, router, switch, ip, mac) ==
    UnlessListed(
        Try(UnlessListed(Try(s, <<Nbctl("lsp-list", switch, "", "")>>),
                         switch \o "-" \o router,
                         <<Nbctl("lsp-add", switch \o "-" \o router, switch, ""),
                           Nbctl("lsp-set-type", switch \o "-" \o router, "", "router"),
                           Nbctl("lsp-set-addresses", switch \o "-" \o router, "", "router"),
                           Nbctl("lsp-set-options", switch \o "-" \o router, "",
                                 "router-port=" \o router \o "-" \o switch)>>),
            <<Nbctl("lrp-list", router, "", "")>>),
        router \o "-" \o switch,
        <<Nbctl("lrp-add", router \o "-" \o switch, router, [mac |-> mac, ip |-> ip])>>)

ConnectRouterToSwitch(s, router, switch, ip, mac) ==
    LET rport == router \o "-" \o switch
        sport == switch \o "-" \o router
    IN  UnlessListed(
            Try(UnlessListed(Try(s, <<Nbctl("lrp-list", router, "", "")>>), rport,
                             <<Nbctl("lrp-add", rport, router, [mac |-> mac, ip |-> ip])>>),
                <<Nbctl("lsp-list", switch, "", "")>>),
            sport,
            <<Nbctl("lsp-add", sport, switch, ""),
              Nbctl("lsp-set-type", sport, "", "router"),
              Nbctl("lsp-set-addresses", sport, "", "router"),
              Nbctl("lsp-set-options", sport, "", "router-port=" \o rport)>>)

\* a variant of RouteUnlessListed: a route is added only to a router that has none
RouteUnlessAny(s1, router, prefix, nexthop) ==
    IF ~Going(s1) \/ s1.out # {} THEN s1
    ELSE Try(s1, <<Nbctl("lr-route-add", router, "",
                         [prefix |-> prefix, nexthop |-> nexthop])>>)

\* "if prefix in existing_routes and nexthop in existing_routes: return"
RouteUnlessListed(s1, router, prefix, nexthop) ==
    IF ~Going(s1) \/ (InOutput(prefix, s1.out) /\ InOutput(nexthop, s1.out)) THEN s1
    ELSE Try(s1, <<Nbctl("lr-route-add", router, "",
                         [prefix |-> prefix, nexthop |-> nexthop])>>)

\* except CalledProcessError: "duplicate" in stderr is swallowed
SwallowDuplicate(s, t) ==
    IF Going(s) /\ ~t.dead /\ t.ret = "raise" /\ t.err = "duplicate"
    THEN Ret(t, "none") ELSE t

AddRouteIfNeeded(s, router, prefix, nexthop) ==
    SwallowDuplicate(s, RouteUnlessListed(Try(s, <<Nbctl("lr-route-list", router, "", "")>>),
                                           router, prefix, nexthop))

\* 10 + ord(vpc_name[-1]) - ord('a')
TransitOctet(vpc_name) == 10 + Ord(PyLast(vpc_name)) - Ord("a")
TransitIp(vpc_name) == "192.168.100." \o PyStr(TransitOctet(vpc_name))

VpcNum(vpc_name) ==
    IF PyIn("vpc-a", vpc_name) THEN 1 ELSE IF PyIn("vpc-b", vpc_name) THEN 2 ELSE 99

RECURSIVE SetupVpcSwitches(_, _, _, _)
SetupVpcSwitches(s, vpc, sws, i) ==
    IF sws = <<>> \/ ~Going(s) THEN s
    ELSE SetupVpcSwitches(
            ConnectRouterToSwitch(
                CreateLogicalSwitch(s, Head(sws).name, Head(sws).cidr, vpc.tenant, vpc.name,
                                    IF Head(sws).tier = "" THEN "default" ELSE Head(sws).tier),
                vpc.router, Head(sws).name, FirstHost(ParseNet(Head(sws).cidr)),
                "00:00:00:" \o Hex02(VpcNum(vpc.name)) \o ":" \o Hex02(i + 1) \o ":01"),
            vpc, Tail(sws), i + 1)

RECURSIVE SetupVpcs(_, _)
SetupVpcs(s, vpcs) ==
    IF vpcs = <<>> \/ ~Going(s) THEN s
    ELSE SetupVpcs(
            ConnectRouterToSwitch(
                SetupVpcSwitches(
                    CreateLogicalRouter(s, Head(vpcs).router, Head(vpcs).name \o " router",
                                        Head(vpcs).tenant, Head(vpcs).name),
                    Head(vpcs), Head(vpcs).switches, 0),
                Head(vpcs).router, "ls-transit", TransitIp(Head(vpcs).name) \o "/24",
                "00:00:00:00:00:" \o Hex02(TransitOctet(Head(vpcs).name))),
            Tail(vpcs))

RECURSIVE InterVpcRoutes(_, _, _)
InterVpcRoutes(s, vpc, others) ==
    IF others = <<>> \/ ~Going(s) THEN s
    ELSE InterVpcRoutes(
            IF Head(others).name # vpc.name
            THEN AddRouteIfNeeded(s, vpc.router, Head(others).cidr, TransitIp(Head(others).name))
            ELSE s,
            vpc, Tail(others))

RECURSIVE VpcRoutes(_, _, _)
VpcRoutes(s, m, vpcs) ==
    IF vpcs = <<>> \/ ~Going(s) THEN s
    ELSE VpcRoutes(
            InterVpcRoutes(
                AddRouteIfNeeded(
                    AddRouteIfNeeded(s, m.gateway.name, Head(vpcs).cidr,
                                     TransitIp(Head(vpcs).name)),
                    Head(vpcs).router, "0.0.0.0/0", "192.168.100.1"),
                Head(vpcs), m.vpcs),
            m, Tail(vpcs))

SetupTopologyFromConfig(s, m) ==
    \* _setup_routes_from_config
    VpcRoutes(
        ConnectRouterToSwitch(
            SetupVpcs(
                CreateLogicalSwitch(
                    CreateLogicalRouter(s, m.gateway.name, "External gateway router",
                                        "shared", ""),
                    "ls-transit", m.transit_cidr, "shared", "", ""),
                m.vpcs),
            m.gateway.name, "ls-transit", "192.168.100.1/24", m.gateway.mac),
        m, m.vpcs)

\* the NAT gateway's port and the default route, with the values of the model
ExternalConnectivity(s, port_name, ip_address, mac_address, switch_name) ==
    \* both except clauses log and go on: nothing is raised to the caller
    Swallow(s,
        UnlessListed(
            Try(UnlessListed(Try(s, <<Nbctl("lsp-list", switch_name, "", "")>>), port_name,
                    <<Nbctl("lsp-add", port_name, switch_name, ""),
                      Nbctl("lsp-set-addresses", port_name, "", mac_address \o " " \o ip_address),
                      Nbctl("lsp-set-port-security", port_name, "", "")>>),
                <<Nbctl("lr-route-list", "lr-gateway", "", "")>>),
            "0.0.0.0/0",
            <<Nbctl("lr-route-add", "lr-gateway", "",
                    [prefix |-> "0.0.0.0/0", nexthop |-> ip_address])>>))

SetupExternalConnectivity(s, m) ==
    LET nat == GetContainerConfig(m, "nat-gateway") IN
    ExternalConnectivity(s, "lsp-nat-gateway",
        IF nat # <<>> THEN nat[1].ip ELSE "192.168.100.254",
        IF nat # <<>> THEN nat[1].mac ELSE "02:00:00:00:00:fe",
        IF nat = <<>> THEN "ls-transit"
        ELSE IF StartsWith(nat[1].switch, "ls-") THEN nat[1].switch
        ELSE "ls-" \o nat[1].switch)

SetupTopology(s, m) == SetupExternalConnectivity(SetupTopologyFromConfig(s, m), m)

\* the calls _setup_topology_hardcoded makes, one after the other: "lr" is
\* _create_logical_router, "ls" _create_logical_switch, "conn"
\* _connect_router_to_switch, "route" _add_route_if_needed
RECURSIVE HardcodedSteps(_, _)
HardcodedSteps(s, steps) ==
    IF steps = <<>> \/ ~Going(s) THEN s
    ELSE HardcodedSteps(
            CASE Head(steps)[1] = "lr" ->
                    CreateLogicalRouter(s, Head(steps)[2], Head(steps)[3], Head(steps)[4],
                                        Head(steps)[5])
              [] Head(steps)[1] = "ls" ->
                    CreateLogicalSwitch(s, Head(steps)[2], Head(steps)[3], Head(steps)[4],
                                        Head(steps)[5], Head(steps)[6])
              [] Head(steps)[1] = "conn" ->
                    ConnectRouterToSwitch(s, Head(steps)[2], Head(steps)[3], Head(steps)[4],
                                          Head(steps)[5])
              [] OTHER ->
                    AddRouteIfNeeded(s, Head(steps)[2], Head(steps)[3], Head(steps)[4]),
            Tail(steps))

\* setup_topology without a config manager: _setup_topology_hardcoded, then
\* _setup_external_connectivity with its defaults
SetupTopologyHardcoded(s) ==
    ExternalConnectivity(
        HardcodedSteps(s,
            <<<<"lr", "lr-gateway", "External gateway router", "shared", "">>,
              <<"lr", "lr-vpc-a", "VPC-A router", "tenant-1", "vpc-a">>,
              <<"lr", "lr-vpc-b", "VPC-B router", "tenant-2", "vpc-b">>,
              <<"ls", "ls-vpc-a-web", "10.0.1.0/24", "tenant-1", "vpc-a", "web">>,
              <<"ls", "ls-vpc-a-app", "10.0.2.0/24", "tenant-1", "vpc-a", "app">>,
              <<"ls", "ls-vpc-a-db", "10.0.3.0/24", "tenant-1", "vpc-a", "db">>,
              <<"ls", "ls-vpc-a-test", "10.0.4.0/24", "tenant-1", "vpc-a", "test">>,
              <<"ls", "ls-vpc-b-web", "10.1.1.0/24", "tenant-2", "vpc-b", "web">>,
              <<"ls", "ls-vpc-b-app", "10.1.2.0/24", "tenant-2", "vpc-b", "app">>,
              <<"ls", "ls-vpc-b-db", "10.1.3.0/24", "tenant-2", "vpc-b", "db">>,
              <<"ls", "ls-vpc-b-test", "10.1.4.0/24", "tenant-2", "vpc-b", "test">>,
              <<"ls", "ls-transit", "192.168.100.0/24", "shared", "", "">>,
              <<"conn", "lr-vpc-a", "ls-vpc-a-web", "10.0.1.1/24", "00:00:00:01:01:01">>,
              <<"conn", "lr-vpc-a", "ls-vpc-a-app", "10.0.2.1/24", "00:00:00:01:02:01">>,
              <<"conn", "lr-vpc-a", "ls-vpc-a-db", "10.0.3.1/24", "00:00:00:01:03:01">>,
              <<"conn", "lr-vpc-a", "ls-vpc-a-test", "10.0.4.1/24", "00:00:00:01:04:01">>,
              <<"conn", "lr-vpc-b", "ls-vpc-b-web", "10.1.1.1/24", "00:00:00:02:01:01">>,
              <<"conn", "lr-vpc-b", "ls-vpc-b-app", "10.1.2.1/24", "00:00:00:02:02:01">>,
              <<"conn", "lr-vpc-b", "ls-vpc-b-db", "10.1.3.1/24", "00:00:00:02:03:01">>,
              <<"conn", "lr-vpc-b", "ls-vpc-b-test", "10.1.4.1/24", "00:00:00:02:04:01">>,
              <<"conn", "lr-gateway", "ls-transit", "192.168.100.1/24", "00:00:00:00:00:01">>,
              <<"conn", "lr-vpc-a", "ls-transit", "192.168.100.10/24", "00:00:00:00:00:10">>,
              <<"conn", "lr-vpc-b", "ls-transit", "192.168.100.20/24", "00:00:00:00:00:20">>,
              <<"route", "lr-gateway", "10.0.0.0/16", "192.168.100.10">>,
              <<"route", "lr-gateway", "10.1.0.0/16", "192.168.100.20">>,
              <<"route", "lr-vpc-a", "0.0.0.0/0", "192.168.100.1">>,
              <<"route", "lr-vpc-b", "0.0.0.0/0", "192.168.100.1">>,
              <<"route", "lr-vpc-a", "10.1.0.0/16", "192.168.100.20">>,
              <<"route", "lr-vpc-b", "10.0.0.0/16", "192.168.100.10">>>>),
        "lsp-nat-gateway", "192.168.100.254", "02:00:00:00:00:fe", "ls-transit")

(***************************************************************************)
(* Names the attach engine derives from a workload name.                   *)
(***************************************************************************)
VethName(container_name) ==
    IF StartsWith(container_name, "traffic-gen")
    THEN "veth-tg-" \o PyLast(container_name)
    ELSE "veth-" \o PyPrefix(container_name, 8)

LspName(container_name) == "lsp-" \o container_name

GetTenantFromVpc(m, vpc_name) ==
    LET parts == PySplit(vpc_name, "-") IN
    IF StartsWith(vpc_name, "traffic-gen-") THEN TenantOf(m, "vpc-" \o parts[Len(parts)])
    ELSE TenantOf(m, "vpc-" \o (IF PyIn("-", vpc_name) THEN parts[2] ELSE vpc_name))

\* the vpc_id that bind_container_to_ovn derives from the workload name
VpcIdOf(container_name) ==
    LET parts == PySplit(container_name, "-") IN
    IF StartsWith(container_name, "traffic-gen-") THEN "vpc-" \o parts[Len(parts)]
    ELSE IF PyIn("-", container_name) THEN "vpc-" \o parts[2] ELSE ""

\* the external_ids bind_container_to_ovn puts on the interface
ExtIds(m, container_name) ==
    [iface_id |-> LspName(container_name),
     tenant_id |-> GetTenantFromVpc(m, container_name),
     container |-> container_name,
     vpc_id |-> VpcIdOf(container_name)]

\* a callee's return value has been read: the caller goes on
Resume(s) == IF s.dead THEN s ELSE [s EXCEPT !.ret = "none"]
\* except CalledProcessError: return v
Catch(s, v) == IF ~s.dead /\ s.ret = "raise" THEN Ret(s, v) ELSE s
\* return v at the end of a handler that has not returned yet
Finish(s, v) == IF Going(s) THEN Ret(s, v) ELSE s

\* "if result.returncode != 0": the cleanup commands run and the handler
\* returns False
FailedThen(t, cleanup) ==
    IF t.dead \/ t.ok THEN t ELSE Ret(ExecEach(t, cleanup), "False")

\* one command whose non-zero exit makes the handler run the cleanup
\* commands and return False
OrFail(s, c, cleanup) == IF ~Going(s) THEN s ELSE FailedThen(Exec(s, c), cleanup)

RECURSIVE OrFailEach(_, _, _)
OrFailEach(s, cmds, cleanup) ==
    IF cmds = <<>> \/ ~Going(s) THEN s
    ELSE OrFailEach(OrFail(s, Head(cmds), cleanup), Tail(cmds), cleanup)

\* a variant of SetPortTenantOwnership whose failures reach the caller
SetPortTenantOwnershipRaising(s, port_name, tenant_id, vpc_id, now) ==
    Try(s, <<Nbctl("lsp-set-ext", port_name, "tenant", tenant_id),
             Nbctl("lsp-set-ext", port_name, "created_at", now),
             Nbctl("lsp-set-ext", port_name, "created_by", "orchestrator")>>)

SetPortTenantOwnership(s, port_name, tenant_id, vpc_id, now) ==
    \* except Exception: logged, nothing raised
    Swallow(s, Try(s, <<Nbctl("lsp-set-ext", port_name, "tenant", tenant_id)>>
                      \o (IF vpc_id # "" THEN <<Nbctl("lsp-set-ext", port_name, "vpc", vpc_id)>>
                          ELSE <<>>)
                      \o <<Nbctl("lsp-set-ext", port_name, "created_at", now),
                           Nbctl("lsp-set-ext", port_name, "created_by", "orchestrator")>>))

(***************************************************************************)
(* Probe (NetworkReconciler.get_container_network_state).                  *)
(***************************************************************************)
\* a variant of NeedsRepair: the probe asks for a repair whenever the workload runs
NeedsRepairEager(st) == st.exists

\* a variant of NeedsRepair that does not look at the logical port
NeedsRepairTwoLayers(st) == st.exists /\ (~st.has_interface \/ ~st.ovs_port_exists)

NeedsRepair(st) ==
    st.exists /\ (~st.has_interface \/ ~st.ovs_port_exists \/ ~st.ovn_port_exists)

NoState == [exists |-> FALSE, has_interface |-> FALSE, ovs_port_exists |-> FALSE,
            ovn_port_exists |-> FALSE, needs_repair |-> FALSE]

\* the logical port has been looked up
ProbeOvnPort(s4, has_interface, ovs_port_exists) ==
    [s |-> s4,
     state |-> [exists |-> TRUE, has_interface |-> has_interface,
                ovs_port_exists |-> ovs_port_exists, ovn_port_exists |-> s4.ok,
                needs_repair |-> NeedsRepair([exists |-> TRUE,
                                              has_interface |-> has_interface,
                                              ovs_port_exists |-> ovs_port_exists,
                                              ovn_port_exists |-> s4.ok])]]

\* the bridge's ports have been listed
ProbeOvsPort(s3, container_name, has_interface) ==
    ProbeOvnPort(Exec(s3, Nbctl("lsp-get-addresses", LspName(container_name), "", "")),
                 has_interface, InOutput(VethName(container_name), s3.out))

\* eth1 has been looked for in the container
ProbeInterface(s2, container_name) ==
    ProbeOvsPort(Exec(s2, Cmd("ovs-list-ports", "br-int", "", "")), container_name, s2.ok)

\* a variant of ProbeExists that looks at every layer whatever docker answers
ProbeExistsAnyway(s1, container_name) ==
    ProbeInterface(Exec(s1, Cmd("docker-exec-link-show", container_name, "", "")),
                   container_name)

\* the container has been inspected: not running, nothing more is looked at
ProbeExists(s1, container_name) ==
    IF ~(s1.ok /\ OutText(s1.out) = "true") THEN [s |-> s1, state |-> NoState]
    ELSE ProbeInterface(Exec(s1, Cmd("docker-exec-link-show", container_name, "", "")),
                        container_name)

\* the run context after the probe, and the state dict it returns
GetContainerNetworkState(s, container_name) ==
    ProbeExists(Exec(s, Cmd("docker-running", container_name, "", "")), container_name)

(***************************************************************************)
(* GC (cleanup_stale_ovs_ports, cleanup_stale_ovn_ports).                   *)
(***************************************************************************)
\* "if not port_has_container": the port goes; s1 is the run after "docker ps"
DropUnlessRunning(s1, port) ==
    IF \E name \in s1.out : name # "" /\ PyPrefix(name, 8) = PyFrom(port, 5)
    THEN s1
    ELSE ExecEach(s1, <<Cmd("ovs-del-port", port, "", "")>>)

\* a variant of CleanupOvsLoop that does not look at the port's name
RECURSIVE CleanupOvsLoopAnyPort(_, _)
CleanupOvsLoopAnyPort(s, ports) ==
    IF ports = <<>> \/ ~Going(s) THEN s
    ELSE CleanupOvsLoopAnyPort(
            DropUnlessRunning(Exec(s, Cmd("docker-ps", "", "", "")), Head(ports)),
            Tail(ports))

RECURSIVE CleanupOvsLoop(_, _)
CleanupOvsLoop(s, ports) ==
    IF ports = <<>> \/ ~Going(s) THEN s
    ELSE IF ~StartsWith(Head(ports), "veth-") THEN CleanupOvsLoop(s, Tail(ports))
    ELSE CleanupOvsLoop(DropUnlessRunning(Exec(s, Cmd("docker-ps", "", "", "")), Head(ports)),
                        Tail(ports))

\* "if result.returncode != 0: return", then the loop over the ports listed
CleanupOvsListed(s1) ==
    IF s1.dead \/ ~s1.ok THEN s1 ELSE CleanupOvsLoop(s1, PyLines(s1.out))

CleanupStaleOvsPorts(s) ==
    CleanupOvsListed(Exec(s, Cmd("ovs-list-ports", "br-int", "", "")))

RECURSIVE CleanupOvnPorts(_, _, _)
CleanupOvnPorts(s, ports, running_containers) ==
    IF ports = <<>> \/ ~Going(s) THEN s
    ELSE IF Head(ports) = "" \/ ~StartsWith(Head(ports), "lsp-")
    THEN CleanupOvnPorts(s, Tail(ports), running_containers)
    ELSE CleanupOvnPorts(
            \* port_name = port_line.split()[1].strip('()'); container_name = port_name[4:]
            IF PyFrom(StripParens(PyWords(Head(ports))[2]), 4) \in running_containers THEN s
            ELSE Exec(s, Nbctl("lsp-del", StripParens(PyWords(Head(ports))[2]), "", "")),
            Tail(ports), running_containers)

\* the ports of one switch have been listed
CleanupSwitchPorts(s1, running_containers) ==
    IF ~Going(s1) THEN s1 ELSE CleanupOvnPorts(s1, PyLines(s1.out), running_containers)

RECURSIVE CleanupOvnSwitches(_, _, _)
CleanupOvnSwitches(s, switches, running_containers) ==
    IF switches = <<>> \/ ~Going(s) THEN s
    ELSE IF Head(switches) = "" THEN CleanupOvnSwitches(s, Tail(switches), running_containers)
    ELSE CleanupOvnSwitches(
            CleanupSwitchPorts(
                Try(s, <<Nbctl("lsp-list", StripParens(PyWords(Head(switches))[2]), "", "")>>),
                running_containers),
            Tail(switches), running_containers)

\* the switches have been listed
CleanupOvnListed(s2, running_containers) ==
    IF ~Going(s2) THEN s2
    ELSE CleanupOvnSwitches(s2, PyLines(s2.out), running_containers)

\* s1 is the run after "docker ps": running_containers = set(stdout.strip().split('\n'))
CleanupOvnRunning(s1) ==
    CleanupOvnListed(Try(s1, <<Nbctl("ls-list", "", "", "")>>),
                     IF s1.out = {} THEN {""} ELSE s1.out)

CleanupStaleOvnPorts(s) == CleanupOvnRunning(Exec(s, Cmd("docker-ps", "", "", "")))

(***************************************************************************)
(* Port Binder (connect_container_to_bridge, bind_container_to_ovn).        *)
(* inp holds what the call draws from outside: gen, the MAC that           *)
(* generate_mac_address returns; kmac, the MAC the kernel gives a new      *)
(* veth; now, the clock.                                                   *)
(***************************************************************************)
\* mac_address after "if not mac_address and self.config_manager"
MacFromConfig(m, container_name, mac_address) ==
    LET container_config == GetContainerConfig(m, container_name) IN
    IF mac_address = "" /\ container_config # <<>> THEN container_config[1].mac
    ELSE mac_address

\* "sudo ethtool -K" three times on the host end, three times in the namespace
Offloads(container_name, veth_host, container_pid) ==
    <<Cmd("ethtool", veth_host, "", "txrx"), Cmd("ethtool", veth_host, "", "tso"),
      Cmd("ethtool", veth_host, "", "gro"),
      Cmd("ns-ethtool", container_name, container_pid, "txrx"),
      Cmd("ns-ethtool", container_name, container_pid, "tso"),
      Cmd("ns-ethtool", container_name, container_pid, "gro")>>

\* ".".join(ip_address.split(".")[:-1]) + ".1"
GatewayOf(ip_address) ==
    LET o == PySplit(ip_address, ".") IN o[1] \o "." \o o[2] \o "." \o o[3] \o ".1"

\* connect_container_to_bridge with the pid in hand
ConnectVeth(s2, container_name, ip_address, bridge, mac_address, container_pid, kmac) ==
    Finish(
        Catch(
            ExecEach(
                Try(ExecEach(
                        Try(ExecEach(s2, <<Cmd("ip-link-del", VethName(container_name), "", "")>>),
                            <<Cmd("ip-link-add", VethName(container_name), "eth1", kmac),
                              Cmd("ip-link-netns", container_name, container_pid, "eth1")>>
                            \o (IF mac_address # ""
                                THEN <<Cmd("ns-set-mac", container_name, container_pid,
                                           mac_address)>>
                                ELSE <<>>)
                            \o <<Cmd("ns-addr-add", container_name, container_pid, ip_address),
                                 Cmd("ns-link-up", container_name, container_pid, "")>>),
                        IF bridge = "br-int"
                        THEN <<Cmd("ns-route-add", container_name, container_pid,
                                   GatewayOf(ip_address))>>
                        ELSE <<>>),
                    <<Cmd("ovs-add-port", VethName(container_name), "may-exist", NoExt),
                      Cmd("ip-link-up", VethName(container_name), "", "")>>),
                Offloads(container_name, VethName(container_name), container_pid)),
            "False"),
        "True")

\* the container's pid has been asked for
ConnectPid(s1, container_name, ip_address, bridge, mac_address, kmac) ==
    ConnectVeth(IF Going(s1) /\ OutText(s1.out) \in {"", "0"} THEN Ret(s1, "False") ELSE s1,
                container_name, ip_address, bridge, mac_address, OutText(s1.out), kmac)

ConnectContainerToBridge(s, m, container_name, ip_address, bridge, mac_arg, inp) ==
    ConnectPid(Try(s, <<Cmd("docker-pid", container_name, "", "")>>), container_name,
               ip_address, bridge, MacFromConfig(m, container_name, mac_arg), inp.kmac)

\* a variant of CreatePort: the logical port is never created
CreatePortGivesUp(s, m, container_name, switch_name, ip_address, mac_address, now) ==
    Ret(s, "False")


\* a variant of CreatePort: port security is set to the MAC alone
CreatePortMacOnly(s, m, container_name, switch_name, ip_address, mac_address, now) ==
    Try(s, <<Nbctl("lsp-add", LspName(container_name), switch_name, ""),
             Nbctl("lsp-set-addresses", LspName(container_name), "",
                   mac_address \o " " \o ip_address),
             Nbctl("lsp-set-port-security", LspName(container_name), "", mac_address)>>)

\* the "if not port_exists" block of bind_container_to_ovn
CreatePort(s, m, container_name, switch_name, ip_address, mac_address, now) ==
    Catch(SetPortTenantOwnership(
            Try(s, <<Nbctl("lsp-add", LspName(container_name), switch_name, ""),
                     Nbctl("lsp-set-addresses", LspName(container_name), "",
                           mac_address \o " " \o ip_address),
                     Nbctl("lsp-set-port-security", LspName(container_name), "",
                           IF container_name = "nat-gateway" THEN ""
                           ELSE mac_address \o " " \o ip_address)>>),
            LspName(container_name), GetTenantFromVpc(m, container_name),
            VpcIdOf(container_name), now),
          "False")

\* "if expected_veth in result.stdout": set the external_ids, return True
BindListed(s1, m, container_name) ==
    IF ~Going(s1) \/ ~InOutput(VethName(container_name), s1.out) THEN s1
    ELSE Finish(Try(s1, <<Cmd("ovs-set-iface", VethName(container_name), "",
                              ExtIds(m, container_name))>>), "True")

\* the end of the try block, and its except clause: delete the veth, return False
AttachDone(s10, del) ==
    IF ~s10.dead /\ s10.ret = "raise"
    THEN Ret(ExecEach(Resume(s10), del), "False")
    ELSE Finish(s10, "True")

\* the pair is in the namespace and the bridge's ports are listed: add the
\* port (or set its external_ids), bring it up, verify
AttachPlug(s6, m, container_name, container_pid, del) ==
    AttachDone(
        OrFail(
            ExecEach(
                Try(IF ~Going(s6) THEN s6
                    ELSE IF ~InOutput(VethName(container_name), s6.out)
                    THEN OrFail(s6, Cmd("ovs-add-port", VethName(container_name), "",
                                        ExtIds(m, container_name)), del)
                    ELSE Try(s6, <<Cmd("ovs-set-iface", VethName(container_name), "",
                                       ExtIds(m, container_name))>>),
                    <<Cmd("ip-link-up", VethName(container_name), "", "")>>),
                Offloads(container_name, VethName(container_name), container_pid)),
            Cmd("docker-exec-addr-show", container_name, "", ""), <<>>),
        del)

\* the bridge's ports are listed: build the pair and configure its far end
AttachFresh(s1, m, container_name, ip_address, mac_address, container_pid, kmac, del) ==
    AttachPlug(
        ExecEach(
            OrFailEach(
                OrFail(ExecEach(IF Going(s1) /\ InOutput(VethName(container_name), s1.out)
                                THEN Ret(s1, "False") ELSE s1, del),
                       Cmd("ip-link-add", VethName(container_name), "eth1", kmac), <<>>),
                <<Cmd("ip-link-netns", container_name, container_pid, "eth1"),
                  Cmd("ns-set-mac", container_name, container_pid, mac_address),
                  Cmd("ns-addr-add", container_name, container_pid, ip_address),
                  Cmd("ns-link-up", container_name, container_pid, "")>>, del),
            <<Cmd("ns-route-add", container_name, container_pid, GatewayOf(ip_address)),
              Cmd("ovs-list-ports", "br-int", "", "")>>),
        m, container_name, container_pid, del)

\* the try block that builds the veth pair and puts it on the bridge
AttachVeth(s, m, container_name, ip_address, mac_address, container_pid, kmac) ==
    AttachFresh(ExecEach(s, <<Cmd("ovs-list-ports", "br-int", "", "")>>), m, container_name,
                ip_address, mac_address, container_pid, kmac,
                <<Cmd("ip-link-del", VethName(container_name), "", "")>>)

\* the container's pid has been asked for: attach unless there is none
BindPid(s5, m, container_name, ip_address, mac3, inp) ==
    IF ~Going(s5) THEN s5
    ELSE IF OutText(s5.out) \in {"", "0"} THEN Ret(s5, "False")
    ELSE AttachVeth(s5, m, container_name, ip_address, mac3, OutText(s5.out), inp.kmac)

\* "if container_connected": the port on the bridge is bound
BindIfConnected(s3, container_connected, m, container_name) ==
    IF Going(s3) /\ container_connected
    THEN BindListed(ExecEach(s3, <<Cmd("ovs-list-ports", "br-int", "", "")>>), m, container_name)
    ELSE s3

\* eth1 has been looked for in the container (s2.ok is container_connected)
BindConnected(s2, m, container_name, switch_name, ip_address, port_exists, mac2, inp) ==
    BindPid(
        ExecEach(
            BindIfConnected(
                IF s2.dead THEN s2
                ELSE IF port_exists /\ s2.ok THEN Ret(s2, "True")
                ELSE IF ~port_exists
                THEN CreatePort(s2, m, container_name, switch_name, ip_address, mac2, inp.now)
                ELSE s2,
                s2.ok, m, container_name),
            <<Cmd("docker-pid", container_name, "", "")>>),
        m, container_name, ip_address, IF mac2 = "" THEN inp.gen ELSE mac2, inp)

\* the logical port has been looked up: port_exists, and the MAC it gives
BindFrom(s1, m, container_name, switch_name, ip_address, port_exists, mac1, inp) ==
    BindConnected(Exec(s1, Cmd("docker-exec-link-show", container_name, "", "")),
                  m, container_name, switch_name, ip_address, port_exists,
                  IF ~port_exists /\ mac1 = "" THEN inp.gen ELSE mac1, inp)

\* a variant of BindLooked that takes the logical port for absent
BindLookedBlind(s1, m, container_name, switch_name, ip_address, mac0, inp) ==
    BindFrom(s1, m, container_name, switch_name, ip_address, FALSE, mac0, inp)

\* s1 is the run after "lsp-get-addresses"; mac0 the MAC after the configuration
BindLooked(s1, m, container_name, switch_name, ip_address, mac0, inp) ==
    BindFrom(s1, m, container_name, switch_name, ip_address, s1.ok,
             IF s1.ok /\ OutText(s1.out) # "" /\ mac0 = ""
             THEN PyWords(OutText(s1.out))[1] ELSE mac0,
             inp)

BindContainerToOvn(s, m, container_name, switch_name, ip_address, mac_arg, inp) ==
    BindLooked(Exec(s, Nbctl("lsp-get-addresses", LspName(container_name), "", "")),
               m, container_name, switch_name, ip_address,
               MacFromConfig(m, container_name, mac_arg), inp)

(***************************************************************************)
(* Reconcile and ReconcileAll (NetworkReconciler).                         *)
(***************************************************************************)
\* "return True" if the bind succeeded, "return False" otherwise
Verdict(s7) ==
    IF s7.dead \/ s7.ret \in {"True", "raise"} THEN s7 ELSE Ret(Resume(s7), "False")

\* a variant of Rebind: the workload is connected to the bridge and never bound
RebindConnectOnly(s6, m, container_name, ip_address, switch_name, mac_address, inp) ==
    Verdict(s6)

\* "if self.ovn.connect_container_to_bridge(...)": then bind
Rebind(s6, m, container_name, ip_address, switch_name, mac_address, inp) ==
    Verdict(IF ~s6.dead /\ s6.ret = "True"
            THEN BindContainerToOvn(Resume(s6), m, container_name, switch_name, ip_address,
                                    mac_address, inp)
            ELSE s6)

\* a variant of Rebuild: the logical port is deleted after the workload has
\* been connected to the bridge again
RebuildPortLast(s1, state, m, container_name, ip_address, switch_name, mac_address, inp) ==
    Rebind(
        ExecEach(
            ConnectContainerToBridge(
                ExecEach(s1, (IF state.has_interface
                              THEN <<Cmd("ns-link-del", container_name, OutText(s1.out), "eth1")>>
                              ELSE <<>>)
                             \o (IF state.ovs_port_exists
                                 THEN <<Cmd("ovs-del-port", VethName(container_name), "", "")>>
                                 ELSE <<>>)
                             \o <<Cmd("ip-link-del", VethName(container_name), "", "")>>),
                m, container_name, ip_address, "br-int", mac_address, inp),
            IF state.ovn_port_exists
            THEN <<Nbctl("lsp-del", LspName(container_name), "", "")>> ELSE <<>>),
        m, container_name, ip_address, switch_name, mac_address, inp)

\* the teardown of what the probe saw, with the pid just read, and the rebuild
Rebuild(s1, state, m, container_name, ip_address, switch_name, mac_address, inp) ==
    Rebind(
        ConnectContainerToBridge(
            ExecEach(s1, (IF state.has_interface
                          THEN <<Cmd("ns-link-del", container_name, OutText(s1.out), "eth1")>>
                          ELSE <<>>)
                         \o (IF state.ovs_port_exists
                             THEN <<Cmd("ovs-del-port", VethName(container_name), "", "")>>
                             ELSE <<>>)
                         \o <<Cmd("ip-link-del", VethName(container_name), "", "")>>
                         \o (IF state.ovn_port_exists
                             THEN <<Nbctl("lsp-del", LspName(container_name), "", "")>>
                             ELSE <<>>)),
            m, container_name, ip_address, "br-int", mac_address, inp),
        m, container_name, ip_address, switch_name, mac_address, inp)

\* reconcile_container once the probe has answered: p is [s, state]
Reconciled(p, m, container_name, ip_address, switch_name, mac_address, inp) ==
    IF p.s.dead THEN p.s
    ELSE IF ~p.state.exists THEN Ret(p.s, "False")
    ELSE IF ~p.state.needs_repair THEN Ret(p.s, "True")
    ELSE Rebuild(Catch(Try(p.s, <<Cmd("docker-pid", container_name, "", "")>>), "False"),
                 p.state, m, container_name, ip_address, switch_name, mac_address, inp)

ReconcileContainer(s, m, container_name, ip_address, switch_name, mac_arg, inp) ==
    Reconciled(GetContainerNetworkState(s, container_name), m, container_name, ip_address,
               switch_name, MacFromConfig(m, container_name, mac_arg), inp)

\* a variant of Tally in which only an exception counts as a failure
TallyExceptionsOnly(r, t) ==
    [s |-> Resume(t),
     success_count |-> r.success_count + (IF ~t.dead /\ t.ret = "True" THEN 1 ELSE 0),
     fail_count |-> r.fail_count + (IF ~t.dead /\ t.ret = "raise" THEN 1 ELSE 0)]

\* success_count / fail_count after one container: r is [s, success_count, fail_count]
Tally(r, t) ==
    [s |-> Resume(t),
     success_count |-> r.success_count + (IF ~t.dead /\ t.ret = "True" THEN 1 ELSE 0),
     fail_count |-> r.fail_count + (IF ~t.dead /\ t.ret # "True" THEN 1 ELSE 0)]

\* the loop of reconcile_all
RECURSIVE ReconcileEach(_, _, _, _)
ReconcileEach(r, m, containers, inp) ==
    IF containers = <<>> \/ r.s.dead THEN r
    ELSE ReconcileEach(
            Tally(r, ReconcileContainer(r.s, m, Head(containers).name, Head(containers).ip,
                                        Head(containers).switch, "", inp)),
            m, Tail(containers), inp)

\* reconcile_all after its cleanups
ReconcileLoop(g, m, inp) ==
    IF Going(g)
    THEN ReconcileEach([s |-> g, success_count |-> 0, fail_count |-> 0], m, m.containers, inp)
    ELSE [s |-> g, success_count |-> 0, fail_count |-> 0]

\* the restart of ovn-controller if anything was fixed, and the return value
Summary(r) ==
    [r EXCEPT !.s = Finish(IF r.success_count > 0
                           THEN ExecEach(r.s, <<Cmd("restart-agent", "ovn-controller", "", "")>>)
                           ELSE r.s,
                           IF r.fail_count = 0 THEN "True" ELSE "False")]

ReconcileAll(s, m, inp) == Summary(ReconcileLoop(CleanupStaleOvnPorts(CleanupStaleOvsPorts(s)), m, inp))

(***************************************************************************)
(* The state machine.                                                      *)
(***************************************************************************)
World == [docker |-> docker, veth |-> veth, ovs |-> ovs, nb |-> nb]

EmptyNb == [lr |-> << >>, ls |-> << >>, lrp |-> << >>, lsp |-> << >>, routes |-> {}]

Names(m) == {m.containers[i].name : i \in 1..Len(m.containers)}
Conf(m, name) == GetContainerConfig(m, name)[1]

\* every workload of model m running, each with its own pid
AllRunning(m) ==
    [n \in Names(m) |->
        [st |-> "running",
         pid |-> PyStr(4000 + (CHOOSE i \in 1..Len(m.containers) : m.containers[i].name = n))]]

\* the faults a call that issues n commands without fault can meet
Faults(n) ==
    {NoFault} \cup
    (IF budget.faults = 0 THEN {}
     ELSE {[kind |-> k, at |-> i] : k \in {"fail", "kill"}, i \in 1..n})

\* what a call draws from outside the program
GenMac(r) == "02:5e:10:20:30:" \o Hex02(r)
\* gen: generate_mac_address(); kmac: the MAC the kernel gives a new veth;
\* now: datetime.now(timezone.utc).isoformat()
Inputs ==
    {[gen |-> GenMac(r), kmac |-> "7a:91:00:00:00:" \o Hex02(r),
      now |-> "2025-01-01T00:00:0" \o PyStr(budget.calls)] : r \in 1..MaxRandMacs}

\* the artifacts that exist and the workloads that run, by name
Snapshot(w) ==
    [ovs |-> DOMAIN w.ovs, lsp |-> DOMAIN w.nb.lsp, veth |-> DOMAIN w.veth,
     eth1 |-> {c \in DOMAIN w.docker : HasEth1(w, c)},
     hosteth1 |-> PairsAt(w, "host") # {},
     running |-> {c \in DOMAIN w.docker : Running(w, c)}]

\* what Probe reports for workload c in stores w when every command works
ProbeOf(w, c) == GetContainerNetworkState(Ctx(w, NoFault), c).state

Brief(l) == [op |-> l.op, c |-> l.c, ret |-> l.ret, hit |-> l.hit]

\* the counters of a call that is not reconcile_all
NoCounts == [success |-> 0, fail |-> 0]

\* the stores a finished call s leaves, and its record: what it returned,
\* the fault it met, the mutating commands it issued, what held before it
Commit(op, c, s, gc, counts) ==
    /\ docker' = s.w.docker
    /\ veth' = s.w.veth
    /\ ovs' = s.w.ovs
    /\ nb' = s.w.nb
    /\ last' = [op |-> op, c |-> c,
                ret |-> IF s.dead THEN "killed" ELSE s.ret,
                hit |-> IF s.hit THEN s.f.kind ELSE "none",
                fop |-> s.fop,
                log |-> s.log,
                pre |-> IF c = "" THEN NoState ELSE ProbeOf(World, c),
                was |-> Snapshot(World),
                before |-> World,
                same |-> s.w = World,
                gc |-> gc,
                counts |-> counts,
                prev |-> Brief(last)]
    /\ budget' = [budget EXCEPT !.ops = @ - 1, !.calls = @ + 1,
                                !.faults = IF s.hit THEN @ - 1 ELSE @]
    /\ UNCHANGED <<cfg, active_processes, thread>>

\* main(): the "setup" command
Setup ==
    /\ budget.ops > 0
    /\ \E f \in Faults(SetupTopology(Ctx(World, NoFault), cfg).n) :
          Commit("setup", "", SetupTopology(Ctx(World, f), cfg), Snapshot(World), NoCounts)

\* bind_container_to_ovn as setup_container_networking and
\* setup_traffic_generators_only call it: for a running workload, with the
\* switch, IP and MAC of its configuration
Bind(c) ==
    /\ budget.ops > 0
    /\ Running(World, c)
    /\ \E inp \in Inputs :
       \E f \in Faults(BindContainerToOvn(Ctx(World, NoFault), cfg, c, Conf(cfg, c).switch,
                                          Conf(cfg, c).ip, Conf(cfg, c).mac, inp).n) :
          Commit("bind", c,
                 BindContainerToOvn(Ctx(World, f), cfg, c, Conf(cfg, c).switch,
                                    Conf(cfg, c).ip, Conf(cfg, c).mac, inp),
                 Snapshot(World), NoCounts)

\* main(): "reconcile --container c"
Reconcile(c) ==
    /\ budget.ops > 0
    /\ \E inp \in Inputs :
       \E f \in Faults(ReconcileContainer(Ctx(World, NoFault), cfg, c, Conf(cfg, c).ip,
                                          Conf(cfg, c).switch, "", inp).n) :
          Commit("reconcile", c,
                 ReconcileContainer(Ctx(World, f), cfg, c, Conf(cfg, c).ip,
                                    Conf(cfg, c).switch, "", inp),
                 Snapshot(World), NoCounts)

\* what reconcile_all leaves: r is [s, success_count, fail_count]
CommitAll(r) ==
    Commit("reconcile_all", "", r.s, Snapshot(CleanupStaleOvnPorts(CleanupStaleOvsPorts(Ctx(World, NoFault))).w),
           [success |-> r.success_count, fail |-> r.fail_count])

\* main(): "reconcile", every command working
ReconcileAllOk ==
    /\ budget.ops > 0
    /\ \E inp \in Inputs : CommitAll(ReconcileAll(Ctx(World, NoFault), cfg, inp))

\* main(): "reconcile", one command of the pass possibly failing, or the
\* process killed before one
ReconcileAllFaulty ==
    /\ budget.ops > 0
    /\ \E inp \in Inputs :
       \E f \in Faults(ReconcileAll(Ctx(World, NoFault), cfg, inp).s.n) :
          CommitAll(ReconcileAll(Ctx(World, f), cfg, inp))

\* how the process ends after command op whose handler ended with ret: an
\* exception leaves main with a traceback and status 1; "setup" falls through
\* to "return 0"; "reconcile" returns 0 if success else 1
MainExit(op, ret) ==
    [raised |-> ret = "raise",
     code |-> IF ret = "raise" THEN 1
              ELSE IF op = "setup" THEN 0
              ELSE IF ret = "True" THEN 0 ELSE 1]

\* what happens outside the program
Outside(kind, c) ==
    /\ last' = [op |-> kind, c |-> c, ret |-> "none", hit |-> "none", fop |-> "",
                log |-> <<>>, pre |-> ProbeOf(World, c), was |-> Snapshot(World),
                before |-> World, same |-> FALSE, gc |-> Snapshot(World), counts |-> NoCounts, prev |-> Brief(last)]
    /\ budget' = [budget EXCEPT !.env = @ - 1]
    /\ UNCHANGED <<cfg, active_processes, thread>>

\* the workload stops: the kernel destroys its namespace and the veth pairs
\* that have an end in it
StopContainer(c) ==
    /\ budget.env > 0
    /\ Running(World, c)
    /\ docker' = [docker EXCEPT ![c].st = "exited"]
    /\ veth' = [v \in DOMAIN veth \ PairsAt(World, c) |-> veth[v]]
    /\ UNCHANGED <<ovs, nb>>
    /\ Outside("stop", c)

\* eth1 is deleted inside the namespace: the pair goes with it
DeleteInterface(c) ==
    /\ budget.env > 0
    /\ Running(World, c) /\ HasEth1(World, c)
    /\ veth' = [v \in DOMAIN veth \ PairsAt(World, c) |-> veth[v]]
    /\ UNCHANGED <<docker, ovs, nb>>
    /\ Outside("delete-interface", c)

\* an operator removes the workload's port from the bridge
DeleteOvsPort(c) ==
    /\ budget.env > 0
    /\ Has(ovs, VethName(c))
    /\ ovs' = MapDel(ovs, VethName(c))
    /\ UNCHANGED <<docker, veth, nb>>
    /\ Outside("delete-ovs-port", c)

\* an operator removes the workload's logical port
DeleteLsp(c) ==
    /\ budget.env > 0
    /\ Has(nb.lsp, LspName(c))
    /\ nb' = [nb EXCEPT !.lsp = MapDel(@, LspName(c))]
    /\ UNCHANGED <<docker, veth, ovs>>
    /\ Outside("delete-lsp", c)

\* the addresses of the workload's logical port are set from outside the
\* program (ovn-nbctl lsp-set-addresses by an operator or another tool)
SetLspAddresses(c) ==
    /\ budget.env > 0
    /\ Has(nb.lsp, LspName(c))
    /\ nb' = [nb EXCEPT !.lsp[LspName(c)].addr = "02:00:00:aa:bb:cc 10.0.9.9"]
    /\ UNCHANGED <<docker, veth, ovs>>
    /\ Outside("set-lsp-addresses", c)

InitLast == [op |-> "init", c |-> "", ret |-> "none", hit |-> "none", fop |-> "",
             log |-> <<>>, pre |-> NoState,
             was |-> [ovs |-> {}, lsp |-> {}, veth |-> {}, eth1 |-> {}, hosteth1 |-> FALSE,
                      running |-> {}],
             before |-> [docker |-> << >>, veth |-> << >>, ovs |-> << >>, nb |-> EmptyNb],
             same |-> TRUE,
             gc |-> [ovs |-> {}, lsp |-> {}, veth |-> {}, eth1 |-> {}, hosteth1 |-> FALSE,
                     running |-> {}],
             counts |-> NoCounts,
             prev |-> [op |-> "init", c |-> "", ret |-> "none", hit |-> "none"]]

(***************************************************************************)
(* traffic-generator/traffic-gen.py: the worker threads of TrafficGenerator *)
(* and the child processes they start.  A child is identified by the       *)
(* worker that started it: a worker has one child at a time.  process_lock *)
(* is held only across one statement that cannot block, so a locked        *)
(* section is one step; everything outside the lock is a step of its own.  *)
(* TrafficGenerator.__init__ and start() leave nothing tracked and every   *)
(* worker about to send.                                                   *)
(***************************************************************************)
threads == 4
max_processes == 3

\* wait_for_slot: the loop test reads the list without the lock; the loop
\* body drops the exited children under the lock, sleeps, and tests again
WaitForSlot(t) ==
    \/ /\ thread[t].pc = "wait_for_slot"
       /\ Cardinality(active_processes) >= max_processes
       /\ thread' = [thread EXCEPT ![t].pc = "prune"]
       /\ UNCHANGED active_processes
    \/ /\ thread[t].pc = "wait_for_slot"
       /\ Cardinality(active_processes) < max_processes
       /\ thread' = [thread EXCEPT ![t].pc = "Popen"]
       /\ UNCHANGED active_processes
    \/ /\ thread[t].pc = "prune"
       /\ active_processes' = {p \in active_processes : thread[p].proc = "running"}
       /\ thread' = [thread EXCEPT ![t].pc = "wait_for_slot"]

\* controlled_tcp_test after wait_for_slot: start the child, append it under
\* the lock, wait for it (it has exited, or the timeout kills it)
ControlledTcpTest(t) ==
    \/ /\ thread[t].pc = "Popen"
       /\ thread' = [thread EXCEPT ![t] = [pc |-> "append", proc |-> "running"]]
       /\ UNCHANGED active_processes
    \/ /\ thread[t].pc = "append"
       /\ active_processes' = active_processes \cup {t}
       /\ thread' = [thread EXCEPT ![t].pc = "wait"]
    \/ /\ thread[t].pc = "wait"
       /\ thread' = [thread EXCEPT ![t] = [pc |-> "cleanup_process", proc |-> "exited"]]
       /\ UNCHANGED active_processes

\* cleanup_process, from the finally clause: under the lock, remove the
\* child if it is still in the list; the worker goes on to its next send
CleanupProcess(t) ==
    /\ thread[t].pc = "cleanup_process"
    /\ active_processes' = active_processes \ {t}
    /\ thread' = [thread EXCEPT ![t] = [pc |-> "wait_for_slot", proc |-> "none"]]

\* the lab before "setup": workloads running, stores empty; the model has
\* two VPCs, or the same with one uniqueness rule broken: a shared IP, a
\* shared MAC, overlapping CIDRs
SpecTopo ==
    /\ cfg \in {Model(<<VpcA, VpcB>>, <<WebA, WebB, NatGw>>),
                Model(<<VpcA, VpcB>>, <<WebA, [WebB EXCEPT !.ip = WebA.ip], NatGw>>),
                Model(<<VpcA, VpcB>>, <<WebA, [WebB EXCEPT !.mac = WebA.mac], NatGw>>),
                Model(<<VpcA, [VpcB EXCEPT !.cidr = "10.0.0.0/8"]>>, <<WebA, WebB, NatGw>>)}
    /\ docker = AllRunning(cfg)
    /\ veth = << >>
    /\ ovs = << >>
    /\ nb = EmptyNb
    /\ last = InitLast
    /\ active_processes = {}
    /\ thread = [t \in 1..threads |-> [pc |-> "wait_for_slot", proc |-> "none"]]
    /\ budget = [ops |-> MaxOps, env |-> MaxEnv, faults |-> MaxFaults, calls |-> 0]
    /\ [][Setup]_vars

\* the lab after "setup": the topology of the model built, nothing attached
Init ==
    /\ cfg = ModelA
    /\ docker = AllRunning(cfg)
    /\ veth = << >>
    /\ ovs = << >>
    /\ nb = SetupTopology(Ctx([docker |-> AllRunning(cfg), veth |-> << >>, ovs |-> << >>,
                               nb |-> EmptyNb], NoFault), cfg).w.nb
    /\ last = InitLast
    /\ active_processes = {}
    /\ thread = [t \in 1..threads |-> [pc |-> "wait_for_slot", proc |-> "none"]]
    /\ budget = [ops |-> MaxOps, env |-> MaxEnv, faults |-> MaxFaults, calls |-> 0]

Next ==
    \/ \E c \in Names(cfg) : Bind(c)
    \/ \E c \in Names(cfg) : Reconcile(c)
    \/ ReconcileAllOk
    \/ \E c \in Names(cfg) : StopContainer(c)
    \/ \E c \in Names(cfg) : DeleteInterface(c)
    \/ \E c \in Names(cfg) : DeleteOvsPort(c)
    \/ \E c \in Names(cfg) : DeleteLsp(c)
    \/ \E c \in Names(cfg) : SetLspAddresses(c)

Spec == Init /\ [][Next]_vars

\* the same lab where every command works, followed further
SpecCalm ==
    /\ cfg = ModelA
    /\ docker = AllRunning(cfg)
    /\ veth = << >>
    /\ ovs = << >>
    /\ nb = SetupTopology(Ctx([docker |-> AllRunning(cfg), veth |-> << >>, ovs |-> << >>,
                               nb |-> EmptyNb], NoFault), cfg).w.nb
    /\ last = InitLast
    /\ active_processes = {}
    /\ thread = [t \in 1..threads |-> [pc |-> "wait_for_slot", proc |-> "none"]]
    /\ budget = [ops |-> MaxOps + 1, env |-> MaxEnv, faults |-> 0, calls |-> 0]
    /\ [][Next]_vars

\* the lab after "setup", where only "reconcile" is run, again and again
SpecPass ==
    /\ cfg = ModelA
    /\ docker = AllRunning(cfg)
    /\ veth = << >>
    /\ ovs = << >>
    /\ nb = SetupTopology(Ctx([docker |-> AllRunning(cfg), veth |-> << >>, ovs |-> << >>,
                               nb |-> EmptyNb], NoFault), cfg).w.nb
    /\ last = InitLast
    /\ active_processes = {}
    /\ thread = [t \in 1..threads |-> [pc |-> "wait_for_slot", proc |-> "none"]]
    /\ budget = [ops |-> MaxOps + 1, env |-> 0, faults |-> MaxFaults, calls |-> 0]
    /\ [][ReconcileAllFaulty]_vars

\* the same, "reconcile" being run again as long as runs are left: a run is
\* enabled exactly when budget.ops > 0, and every run takes one from it
SpecPassFair ==
    SpecPass /\ WF_budget(budget.ops > 0 /\ \E h \in BOOLEAN :
                    budget' = [budget EXCEPT !.ops = @ - 1, !.calls = @ + 1,
                                             !.faults = IF h THEN @ - 1 ELSE @])

\* the lab after "setup" for a model whose two workloads of switch
\* ls-vpc-a-web have names drawn from a pool, where workloads are bound
SpecNames ==
    /\ cfg \in {Model(<<VpcA>>,
                      <<Ct(p[1], "vpc-a", "ls-vpc-a-web", "10.0.1.10", "02:00:00:01:01:0a", ""),
                        Ct(p[2], "vpc-a", "ls-vpc-a-web", "10.0.1.11", "02:00:00:01:01:0b", ""),
                        NatGw>>) :
                    p \in {q \in {"vpc-a-web", "vpc-a-web2", "vpc-a-app", "traffic-gen-a",
                                  "traffic-gen-ba"} \X
                                 {"vpc-a-web", "vpc-a-web2", "vpc-a-app", "traffic-gen-a",
                                  "traffic-gen-ba"} : StrLess(q[1], q[2])}}
    /\ docker = AllRunning(cfg)
    /\ veth = << >>
    /\ ovs = << >>
    /\ nb = SetupTopology(Ctx([docker |-> AllRunning(cfg), veth |-> << >>, ovs |-> << >>,
                               nb |-> EmptyNb], NoFault), cfg).w.nb
    /\ last = InitLast
    /\ active_processes = {}
    /\ thread = [t \in 1..threads |-> [pc |-> "wait_for_slot", proc |-> "none"]]
    /\ budget = [ops |-> MaxOps, env |-> 0, faults |-> 0, calls |-> 0]
    /\ [][\E c \in Names(cfg) : Bind(c)]_vars

\* the lab after "setup" with a GENEVE tunnel port and the tap port of a VM
\* on br-int (setup_tunnels.py, vm_manager.py), where workloads are bound,
\* stop, and are reconciled one by one or all together
SpecFrame ==
    /\ cfg = ModelA
    /\ docker = AllRunning(cfg)
    /\ veth = << >>
    /\ ovs = ("geneve-vpc-a-b" :> NoExt) @@
             ("tap-vpc-a-vm" :> [NoExt EXCEPT !.iface_id = "vpc-a-vm-port"])
    /\ nb = SetupTopology(Ctx([docker |-> AllRunning(cfg), veth |-> << >>, ovs |-> << >>,
                               nb |-> EmptyNb], NoFault), cfg).w.nb
    /\ last = InitLast
    /\ active_processes = {}
    /\ thread = [t \in 1..threads |-> [pc |-> "wait_for_slot", proc |-> "none"]]
    /\ budget = [ops |-> MaxOps, env |-> MaxEnv, faults |-> MaxFaults, calls |-> 0]
    /\ [][\/ \E c \in Names(cfg) : Bind(c)
          \/ \E c \in Names(cfg) : Reconcile(c)
          \/ ReconcileAllFaulty
          \/ \E c \in Names(cfg) : StopContainer(c)]_vars

\* network_config_manager.py "validate": validate_config applied to a loaded
\* model, drawn from two-VPC models whose second workload and second VPC
\* vary in IP, MAC (the first workload's, its own, none), host, VPC and CIDR
SpecValidate ==
    /\ cfg \in {Model(<<VpcA, [VpcB EXCEPT !.cidr = cidr]>>,
                      <<[WebA EXCEPT !.mac = mac1],
                        [WebB EXCEPT !.ip = ip, !.mac = mac2, !.host = host, !.vpc = vpc],
                        NatGw>>) :
                    cidr \in {"10.1.0.0/16", "10.0.0.0/8", "10.1.0.1/16", "10.1.0.0"},
                    mac1 \in {WebA.mac, ""},
                    ip \in {WebB.ip, WebA.ip},
                    mac2 \in {WebB.mac, WebA.mac, ""},
                    host \in {"host-1", "host-9"},
                    vpc \in {"vpc-b", "vpc-z", "transit"}}
    /\ docker = AllRunning(cfg)
    /\ veth = << >>
    /\ ovs = << >>
    /\ nb = EmptyNb
    /\ last = InitLast
    /\ active_processes = {}
    /\ thread = [t \in 1..threads |-> [pc |-> "wait_for_slot", proc |-> "none"]]
    /\ budget = [ops |-> MaxOps, env |-> MaxEnv, faults |-> MaxFaults, calls |-> 0]
    /\ [][/\ budget.calls = 0
          /\ last' = [InitLast EXCEPT !.op = "validate", !.ret = ValidateConfig(cfg)]
          /\ budget' = [budget EXCEPT !.ops = @ - 1, !.calls = @ + 1]
          /\ UNCHANGED <<cfg, docker, veth, ovs, nb, active_processes, thread>>]_vars

\* one "setup" on an empty control plane, with the configuration of the
\* lab's two VPCs (the four tiers of each) or without a configuration
SpecBuilders ==
    /\ cfg = Model(<<[VpcA EXCEPT !.switches =
                          <<Sw("ls-vpc-a-web", "10.0.1.0/24", "web"),
                            Sw("ls-vpc-a-app", "10.0.2.0/24", "app"),
                            Sw("ls-vpc-a-db", "10.0.3.0/24", "db"),
                            Sw("ls-vpc-a-test", "10.0.4.0/24", "test")>>],
                      [VpcB EXCEPT !.switches =
                          <<Sw("ls-vpc-b-web", "10.1.1.0/24", "web"),
                            Sw("ls-vpc-b-app", "10.1.2.0/24", "app"),
                            Sw("ls-vpc-b-db", "10.1.3.0/24", "db"),
                            Sw("ls-vpc-b-test", "10.1.4.0/24", "test")>>]>>,
                    <<WebA, WebB, NatGw>>)
    /\ docker = AllRunning(cfg)
    /\ veth = << >>
    /\ ovs = << >>
    /\ nb = EmptyNb
    /\ last = InitLast
    /\ active_processes = {}
    /\ thread = [t \in 1..threads |-> [pc |-> "wait_for_slot", proc |-> "none"]]
    /\ budget = [ops |-> 1, env |-> 0, faults |-> MaxFaults, calls |-> 0]
    /\ [][\/ Setup
          \/ /\ budget.ops > 0
             /\ \E f \in Faults(SetupTopologyHardcoded(Ctx(World, NoFault)).n) :
                   Commit("setup-hardcoded", "", SetupTopologyHardcoded(Ctx(World, f)),
                          Snapshot(World), NoCounts)]_vars

\* one "setup" on an empty control plane for models of two VPCs whose names
\* are drawn from a pool
SpecTransit ==
    /\ cfg \in {Model(<<Vpc(p[1], "tenant-1", "10.0.0.0/16", "lr-" \o p[1],
                            <<Sw("ls-" \o p[1] \o "-web", "10.0.1.0/24", "web")>>),
                        Vpc(p[2], "tenant-2", "10.1.0.0/16", "lr-" \o p[2],
                            <<Sw("ls-" \o p[2] \o "-web", "10.1.1.0/24", "web")>>)>>,
                      <<NatGw>>) :
                    p \in {q \in {"vpc-a", "vpc-b", "vpc-z", "prod-a", "vpc-X"} \X
                                 {"vpc-a", "vpc-b", "vpc-z", "prod-a", "vpc-X"} :
                                StrLess(q[1], q[2])}}
    /\ docker = AllRunning(cfg)
    /\ veth = << >>
    /\ ovs = << >>
    /\ nb = EmptyNb
    /\ last = InitLast
    /\ active_processes = {}
    /\ thread = [t \in 1..threads |-> [pc |-> "wait_for_slot", proc |-> "none"]]
    /\ budget = [ops |-> 1, env |-> 0, faults |-> MaxFaults, calls |-> 0]
    /\ [][Setup]_vars

\* the traffic generator in the 'standard' profile: its worker threads send
\* again and again, and a child exits on its own at any time
SpecTraffic ==
    /\ cfg = ModelA
    /\ docker = AllRunning(cfg)
    /\ veth = << >>
    /\ ovs = << >>
    /\ nb = EmptyNb
    /\ last = InitLast
    /\ active_processes = {}
    /\ thread = [t \in 1..threads |-> [pc |-> "wait_for_slot", proc |-> "none"]]
    /\ budget = [ops |-> 0, env |-> 0, faults |-> 0, calls |-> 0]
    /\ [][\/ \E t \in 1..threads :
                /\ WaitForSlot(t)
                /\ UNCHANGED <<cfg, docker, veth, ovs, nb, last, budget>>
          \/ \E t \in 1..threads :
                /\ ControlledTcpTest(t)
                /\ UNCHANGED <<cfg, docker, veth, ovs, nb, last, budget>>
          \/ \E t \in 1..threads :
                /\ CleanupProcess(t)
                /\ UNCHANGED <<cfg, docker, veth, ovs, nb, last, budget>>
          \/ \E t \in 1..threads :
                /\ thread[t].proc = "running"
                /\ thread' = [thread EXCEPT ![t].proc = "exited"]
                /\ UNCHANGED <<cfg, docker, veth, ovs, nb, last, budget, active_processes>>]_vars

(***************************************************************************)
(* Properties.                                                             *)
(***************************************************************************)
InLog(op, a) == \E i \in 1..Len(last.log) : last.log[i] = <<op, a>>

AllLayers(st) ==
    st.exists /\ st.has_interface /\ st.ovs_port_exists /\ st.ovn_port_exists

\* exactly one of the three layers of a running workload is missing
SingleLayerDeficient(st) ==
    /\ st.exists
    /\ \/ ~st.has_interface /\ st.ovs_port_exists /\ st.ovn_port_exists
       \/ st.has_interface /\ ~st.ovs_port_exists /\ st.ovn_port_exists
       \/ st.has_interface /\ st.ovs_port_exists /\ ~st.ovn_port_exists

\* the workload's port on the bridge is bound to its logical port
BoundOnBridge(c) ==
    /\ Has(ovs, VethName(c))
    /\ ovs[VethName(c)].iface_id = LspName(c)

\* workload c is attached at every layer, with all of its metadata
FullyAttached(c) ==
    /\ HasEth1(World, c)
    /\ BoundOnBridge(c)
    /\ ovs[VethName(c)].tenant_id # ""
    /\ ovs[VethName(c)].vpc_id # ""
    /\ ovs[VethName(c)].container = c
    /\ Has(nb.lsp, LspName(c))
    /\ nb.lsp[LspName(c)].addr # ""

\* an artifact of workload c that the last call created is still there
LeftBehind(c) ==
    \/ LspName(c) \notin last.was.lsp /\ Has(nb.lsp, LspName(c))
    \/ VethName(c) \notin last.was.veth /\ Has(veth, VethName(c))
    \/ c \notin last.was.eth1 /\ HasEth1(World, c)
    \/ VethName(c) \notin last.was.ovs /\ Has(ovs, VethName(c))

\* C1: if Probe reports a running workload with namespace interface,
\* virtual-switch port and logical port all present, Reconcile for that
\* workload issues no mutating command, changes no store and returns success.
C1_HealthyReconcileNoOp ==
    (last.op = "reconcile" /\ last.hit = "none" /\ AllLayers(last.pre))
        => (last.log = <<>> /\ last.same /\ last.ret = "True")

C1_Witness ==
    /\ last.op = "reconcile" /\ last.hit = "none"
    /\ AllLayers(last.pre)
    /\ FullyAttached(last.c)
    /\ last.ret = "True"

\* C2: for a running workload with exactly one layer missing, Reconcile in
\* which no command is made to fail deletes every artifact the probe saw,
\* creates the veth pair, the virtual-switch port and the logical port anew,
\* returns success, and a Probe taken right after reports all four layers
\* true with needs_repair false.
C2_SingleLayerRepair ==
    (last.op = "reconcile" /\ last.hit = "none" /\ SingleLayerDeficient(last.pre))
        => /\ last.ret = "True"
           /\ last.pre.has_interface => InLog("ns-link-del", last.c)
           /\ last.pre.ovs_port_exists => InLog("ovs-del-port", VethName(last.c))
           /\ last.pre.ovn_port_exists => InLog("lsp-del", LspName(last.c))
           /\ InLog("ip-link-add", VethName(last.c))
           /\ InLog("ovs-add-port", VethName(last.c))
           /\ InLog("lsp-add", LspName(last.c))
           /\ AllLayers(ProbeOf(World, last.c))
           /\ ~ProbeOf(World, last.c).needs_repair

C2_Witness ==
    /\ last.op = "reconcile" /\ last.hit = "none"
    /\ last.pre.exists /\ ~last.pre.has_interface
    /\ last.pre.ovs_port_exists /\ last.pre.ovn_port_exists
    /\ last.ret = "True"
    /\ AllLayers(ProbeOf(World, last.c))

\* the other two single-layer cases of C2 are reached as well
C2_OnlyOvsPortMissing ==
    /\ last.op = "reconcile" /\ last.hit = "none"
    /\ last.pre.has_interface /\ ~last.pre.ovs_port_exists /\ last.pre.ovn_port_exists
    /\ last.ret = "True"

C2_OnlyLogicalPortMissing ==
    /\ last.op = "reconcile" /\ last.hit = "none"
    /\ last.pre.has_interface /\ last.pre.ovs_port_exists /\ ~last.pre.ovn_port_exists
    /\ last.ret = "True"

\* C3: the GC phase of ReconcileAll deletes neither the virtual-switch port
\* nor the logical port of a workload that is running, whichever naming
\* scheme its port follows.
C3_GcSparesRunning ==
    last.op = "reconcile_all" =>
        \A c \in Names(cfg) \cap last.was.running :
            /\ VethName(c) \in last.was.ovs => VethName(c) \in last.gc.ovs
            /\ LspName(c) \in last.was.lsp => LspName(c) \in last.gc.lsp

\* C4: after the GC phase of a ReconcileAll in which no command is made to
\* fail, neither the virtual-switch port nor the logical port of a bound
\* workload that no longer runs remains.
C4_GcRemovesStale ==
    (last.op = "reconcile_all" /\ last.hit = "none") =>
        \A c \in Names(cfg) \ last.was.running :
            (VethName(c) \in last.was.ovs /\ LspName(c) \in last.was.lsp)
                => (VethName(c) \notin last.gc.ovs /\ LspName(c) \notin last.gc.lsp)

\* C5: when Bind returns, whichever single command was made to fail, either
\* it reports success and the workload is attached at every layer with its
\* metadata, or it reports failure and nothing it created remains.
C5_BindAllOrNothing ==
    (last.op = "bind" /\ last.ret # "killed") =>
        \/ last.ret = "True" /\ FullyAttached(last.c)
        \/ last.ret # "True" /\ ~LeftBehind(last.c)

\* C6: when a namespace configuration step (move into the namespace, set
\* MAC, add IP, link up) fails after the Port Binder has created the veth
\* pair, in Bind or in the rebuild of Reconcile, the pair is gone when the
\* call returns and Probe reports neither a virtual-switch port nor a
\* namespace interface.
C6_VethCleanedUp ==
    (/\ last.op \in {"bind", "reconcile"}
     /\ last.hit = "fail"
     /\ last.fop \in {"ip-link-netns", "ns-set-mac", "ns-addr-add", "ns-link-up"})
        => /\ ~Has(veth, VethName(last.c))
           /\ ~ProbeOf(World, last.c).ovs_port_exists
           /\ ~ProbeOf(World, last.c).has_interface

\* C7: after a kill between two commands of Bind or Reconcile, one
\* ReconcileAll in which no command is made to fail, and which reports
\* success, leaves every running configured workload with a namespace
\* interface, a virtual-switch port whose iface-id is lsp-<workload>, and a
\* logical port with addresses and port security set.
C7_KillThenReconcileAll ==
    (/\ last.op = "reconcile_all" /\ last.hit = "none" /\ last.ret = "True"
     /\ last.prev.op \in {"bind", "reconcile"} /\ last.prev.hit = "kill")
        => \A c \in Names(cfg) :
              Running(World, c) =>
                 /\ HasEth1(World, c)
                 /\ BoundOnBridge(c)
                 /\ Has(nb.lsp, LspName(c))
                 /\ nb.lsp[LspName(c)].addr # ""
                 /\ nb.lsp[LspName(c)].ps # Unset

IsCreate(entry) == entry[1] \in {"lr-add", "ls-add", "lrp-add", "lsp-add", "lr-route-add"}

\* C8: a second setup_topology on the same model, right after a first that
\* completed, with no command made to fail, raises no error, issues no
\* create command and leaves the control plane as the first call left it.
C8_SetupTwice ==
    (/\ last.op = "setup" /\ last.hit = "none"
     /\ last.prev.op = "setup" /\ last.prev.hit = "none" /\ last.prev.ret = "none")
        => /\ last.ret = "none"
           /\ \A i \in 1..Len(last.log) : ~IsCreate(last.log[i])
           /\ last.same

C8_Witness ==
    /\ last.op = "setup" /\ last.hit = "none" /\ last.ret = "none"
    /\ last.prev.op = "setup" /\ last.prev.hit = "none" /\ last.prev.ret = "none"
    /\ last.same
    /\ DOMAIN nb.lr = {"lr-gateway", "lr-vpc-a", "lr-vpc-b"}
    /\ nb.routes # {}

\* C9: for a model in which two workloads share an IP or a MAC, or two VPC
\* CIDRs overlap, setup_topology issues no control-plane create command.
C9_InvalidModelRejected ==
    (last.op = "setup" /\ ValidateConfig(cfg) # <<>>)
        => \A i \in 1..Len(last.log) : ~IsCreate(last.log[i])

\* C10: for a running workload other than the NAT gateway with no prior
\* attachment, after a successful Bind on the built topology Probe reports
\* all four layers true, and lsp-<workload> has addresses "<mac> <ip>" and
\* port security equal to the same string, the MAC being the configured one
\* or, when none is configured, a generated one.
C10_FreshBind ==
    (/\ last.op = "bind" /\ last.ret = "True" /\ last.c # "nat-gateway"
     /\ LspName(last.c) \notin last.was.lsp
     /\ VethName(last.c) \notin last.was.ovs
     /\ VethName(last.c) \notin last.was.veth
     /\ last.c \notin last.was.eth1)
        => /\ AllLayers(ProbeOf(World, last.c))
           /\ Has(nb.lsp, LspName(last.c))
           /\ \E mac \in (IF Conf(cfg, last.c).mac # "" THEN {Conf(cfg, last.c).mac}
                          ELSE {GenMac(r) : r \in 1..MaxRandMacs}) :
                 /\ nb.lsp[LspName(last.c)].addr = mac \o " " \o Conf(cfg, last.c).ip
                 /\ nb.lsp[LspName(last.c)].ps = mac \o " " \o Conf(cfg, last.c).ip

C10_Witness ==
    /\ last.op = "bind" /\ last.ret = "True" /\ last.c = "traffic-gen-a"
    /\ LspName(last.c) \notin last.was.lsp
    /\ VethName(last.c) \notin last.was.ovs
    /\ last.c \notin last.was.eth1
    /\ AllLayers(ProbeOf(World, last.c))
    /\ nb.lsp[LspName(last.c)].ps = GenMac(1) \o " 10.0.4.10"

\* the namespace interface (eth1) of workload c in stores w
Eth1Of(w, c) == w.veth[CHOOSE v \in PairsAt(w, c) : TRUE]

\* a Reconcile of workload last.c in which no command is made to fail,
\* right after the namespace interface of that healthy workload was deleted
ReconcileAfterInterfaceLoss ==
    /\ last.op = "delete-interface" /\ AllLayers(last.pre)
    /\ last'.op = "reconcile" /\ last'.c = last.c /\ last'.hit = "none"

\* the interface is back with the IP and MAC it had, and the logical port
\* has the addresses and the ownership tags it had
IdentityKept ==
    /\ HasEth1(World', last.c)
    /\ Eth1Of(World', last.c).ip = Eth1Of(last.before, last.c).ip
    /\ Eth1Of(World', last.c).mac = Eth1Of(last.before, last.c).mac
    /\ Has(nb'.lsp, LspName(last.c))
    /\ nb'.lsp[LspName(last.c)].addr = nb.lsp[LspName(last.c)].addr
    /\ nb'.lsp[LspName(last.c)].tenant = nb.lsp[LspName(last.c)].tenant
    /\ nb'.lsp[LspName(last.c)].vpc = nb.lsp[LspName(last.c)].vpc
    /\ nb'.lsp[LspName(last.c)].created_at = nb.lsp[LspName(last.c)].created_at
    /\ nb'.lsp[LspName(last.c)].created_by = nb.lsp[LspName(last.c)].created_by

\* C11: when the namespace interface of a healthy workload is deleted out
\* of band and Reconcile then runs with every command succeeding, the
\* interface reappears with the IP and MAC it had, and lsp-<workload> keeps
\* its name, addresses and ownership tags (tenant-id, vpc-id, created-at,
\* created-by), with or without a configured MAC.
C11_ReconcileKeepsIdentity == [][ReconcileAfterInterfaceLoss => IdentityKept]_vars

\* what the claim asks of a probe result: needs_repair exactly when the
\* workload runs and not all of the three other layers are there
RepairIffDeficient(st) ==
    st.needs_repair <=>
        (st.exists /\ ~(st.has_interface /\ st.ovs_port_exists /\ st.ovn_port_exists))

\* C12: for every combination of the four probed layers, Probe's
\* needs_repair is true if and only if the workload is running and at least
\* one of namespace interface, virtual-switch port, logical port is absent.
C12_NeedsRepairIff ==
    /\ RepairIffDeficient(last.pre)
    /\ \A c \in Names(cfg) : RepairIffDeficient(ProbeOf(World, c))

\* the probe results met: running workloads with each of the eight
\* combinations of the three layers, and a workload that does not run
ProbedCombinations ==
    {<<ProbeOf(World, c).exists, ProbeOf(World, c).has_interface,
       ProbeOf(World, c).ovs_port_exists, ProbeOf(World, c).ovn_port_exists>> :
        c \in Names(cfg)}

C12_Witness ==
    /\ <<TRUE, TRUE, FALSE, TRUE>> \in ProbedCombinations
    /\ <<TRUE, TRUE, TRUE, TRUE>> \in ProbedCombinations
    /\ <<FALSE, FALSE, FALSE, FALSE>> \in ProbedCombinations
    /\ \E c \in Names(cfg) : ProbeOf(World, c).needs_repair
    /\ \E c \in Names(cfg) : Running(World, c) /\ ~ProbeOf(World, c).needs_repair

\* the places of the last call's log where ovn-controller is restarted
Restarts == {i \in 1..Len(last.log) : last.log[i][1] = "restart-agent"}

\* the last call rebuilt an artifact of some workload
RepairPerformed ==
    \E i \in 1..Len(last.log) : last.log[i][1] \in {"ip-link-add", "ovs-add-port", "lsp-add"}

\* C13: ReconcileAll restarts ovn-controller at most once, after every
\* workload has been processed, and only if at least one workload repair
\* (teardown and rebind) succeeded in that pass; a pass in which no repair
\* was performed does not restart it.
C13_RestartOnlyAfterRepair ==
    last.op = "reconcile_all" =>
        /\ Cardinality(Restarts) <= 1
        /\ \A i \in Restarts : i = Len(last.log)
        /\ Restarts # {} => RepairPerformed

\* C14: ReconcileAll never aborts early: per-workload reconciliation is
\* attempted for every configured workload whatever fails before it, be it
\* a command or exception in the GC phase or in an earlier workload's
\* reconciliation (every workload is counted, as a success or a failure).
C14_NeverAbortsEarly ==
    (last.op = "reconcile_all" /\ last.ret # "killed")
        => last.counts.success + last.counts.fail = Len(cfg.containers)

\* an item of a batch command failed: a creating command of the topology
\* build, or the reconciliation of a workload
ItemFailed ==
    \/ last.op = "setup" /\ last.hit = "fail" /\ IsCreate(<<last.fop>>)
    \/ last.op = "reconcile_all" /\ last.counts.fail > 0

\* C15: for each batch command of the front end, whenever a per-item
\* operation failed the process ends with a non-zero exit code, and no
\* exception propagates out of main to the operator.
C15_BatchExitStatus ==
    (ItemFailed /\ last.ret # "killed")
        => /\ MainExit(last.op, last.ret).code # 0
           /\ ~MainExit(last.op, last.ret).raised

\* every configured workload that runs in stores w probes healthy
SettledIn(w) == \A c \in Names(cfg) : Running(w, c) => ~ProbeOf(w, c).needs_repair
Settled == SettledIn(World)

\* C16: workloads staying up, nothing changed from outside and the command
\* failures being over, repeated reconcile_all reaches a state in which
\* every configured running workload probes healthy, and a pass started in
\* such a state whose commands all succeed returns success and leaves it so.
C16_Converges ==
    /\ (budget.faults = 0 /\ budget.ops >= 2) ~> Settled
    /\ []((last.op = "reconcile_all" /\ last.hit = "none" /\ SettledIn(last.before))
            => (last.ret = "True" /\ Settled))

\* a pass that met a failed command, then a pass that repaired what it left
C16_Witness ==
    /\ last.op = "reconcile_all" /\ last.hit = "none" /\ last.ret = "True"
    /\ last.prev.op = "reconcile_all" /\ last.prev.hit = "fail" /\ last.prev.ret = "False"
    /\ RepairPerformed
    /\ Settled

\* the address of a router's port on the transit switch, without the mask
TransitIpOf(router) == PySplit(nb.lrp[router \o "-ls-transit"].ip, "/")[1]
\* the IP of the egress port
EgressIp == PySplit(nb.lsp["lsp-nat-gateway"].addr, " ")[2]

RoutesOfSpec ==
    {[lr |-> cfg.vpcs[i].router, prefix |-> "0.0.0.0/0",
      nexthop |-> TransitIpOf(cfg.gateway.name)] : i \in 1..Len(cfg.vpcs)}
    \cup {[lr |-> cfg.gateway.name, prefix |-> cfg.vpcs[i].cidr,
           nexthop |-> TransitIpOf(cfg.vpcs[i].router)] : i \in 1..Len(cfg.vpcs)}
    \cup {[lr |-> cfg.vpcs[p[1]].router, prefix |-> cfg.vpcs[p[2]].cidr,
           nexthop |-> TransitIpOf(cfg.vpcs[p[2]].router)] :
              p \in {q \in (1..Len(cfg.vpcs)) \X (1..Len(cfg.vpcs)) : q[1] # q[2]}}
    \cup {[lr |-> cfg.gateway.name, prefix |-> "0.0.0.0/0", nexthop |-> EgressIp]}

\* a setup on an empty control plane, every command of which succeeded
BuiltFromEmpty ==
    /\ last.op = "setup" /\ last.hit = "none" /\ last.ret = "none"
    /\ last.before.nb = EmptyNb

\* C17: after a successful setup_topology from an empty control plane the
\* static routes are exactly: on each VPC router a default route via the
\* gateway router's transit IP; on the gateway router one route per VPC CIDR
\* via that VPC router's transit IP; on each VPC router one route for every
\* other VPC's CIDR via that VPC router's transit IP; and the gateway
\* router's default route to the egress port.
C17_RoutesExact == BuiltFromEmpty => nb.routes = RoutesOfSpec

C17_Witness ==
    /\ BuiltFromEmpty
    /\ Len(cfg.vpcs) = 2
    /\ Cardinality(nb.routes) = 7
    /\ [lr |-> "lr-vpc-a", prefix |-> cfg.vpcs[2].cidr, nexthop |-> "192.168.100.11"] \in nb.routes
    /\ [lr |-> "lr-gateway", prefix |-> "0.0.0.0/0", nexthop |-> "192.168.100.254"] \in nb.routes

\* setup_topology returned and none of its commands failed
BuildCompleted == last.op = "setup" /\ last.hit = "none" /\ last.ret = "none"

\* router port rp has its peer on switch sw: the port sw-<router> of that
\* switch, of type router, with the option naming rp
PeerOn(rp, sw) ==
    /\ rp = nb.lrp[rp].lr \o "-" \o sw
    /\ Has(nb.lsp, sw \o "-" \o nb.lrp[rp].lr)
    /\ nb.lsp[sw \o "-" \o nb.lrp[rp].lr].sw = sw
    /\ nb.lsp[sw \o "-" \o nb.lrp[rp].lr].type = "router"
    /\ nb.lsp[sw \o "-" \o nb.lrp[rp].lr].opts = "router-port=" \o rp

\* C18: after setup_topology completes successfully every router port
\* <router>-<switch> has its one peer switch port <switch>-<router> on that
\* switch, with type router and option router-port=<router>-<switch>, and
\* every such switch port has its router port.
C18_PortsPaired ==
    BuildCompleted =>
        /\ \A rp \in DOMAIN nb.lrp : \E sw \in DOMAIN nb.ls : PeerOn(rp, sw)
        /\ \A sp \in DOMAIN nb.lsp : \A lr \in DOMAIN nb.lr :
              sp = nb.lsp[sp].sw \o "-" \o lr => Has(nb.lrp, lr \o "-" \o nb.lsp[sp].sw)

\* what a single uninterrupted setup_topology builds on an empty control plane
FullBuild ==
    SetupTopology(Ctx([docker |-> AllRunning(cfg), veth |-> << >>, ovs |-> << >>,
                       nb |-> EmptyNb], NoFault), cfg).w.nb

\* C19: if a setup_topology aborts after some prefix of its control-plane
\* commands, the next one whose commands all succeed completes what is
\* missing: routers, switches, router ports, switch ports, routes and
\* ownership tags equal those of a single uninterrupted build.
C19_NextBuildCompletes ==
    (BuildCompleted /\ last.prev.op = "setup" /\ last.prev.ret \in {"raise", "killed"})
        => nb = FullBuild

\* C20: an error other than a duplicate-object error that occurs while
\* setup_topology creates a router, a switch, a port pair, a route or the
\* egress port aborts the build and is raised to the caller: the failed
\* command is the last topology command issued.
C20_ErrorRaised ==
    (last.op = "setup" /\ last.hit = "fail" /\ IsCreate(<<last.fop>>))
        => /\ last.ret = "raise"
           /\ last.log[Len(last.log)][1] = last.fop

\* the last call as a bind in which every command succeeds, started in the
\* stores the last call started in
BindUnfaulted(inp) ==
    BindContainerToOvn(Ctx(last.before, NoFault), cfg, last.c, Conf(cfg, last.c).switch,
                       Conf(cfg, last.c).ip, Conf(cfg, last.c).mac, inp)

\* the last call returned what x returns and left what x leaves, the
\* ownership stamps of the logical port apart
SameButStamps(x) ==
    /\ last.ret = x.ret
    /\ veth = x.w.veth
    /\ ovs = x.w.ovs
    /\ DOMAIN nb.lsp = DOMAIN x.w.nb.lsp
    /\ \A p \in DOMAIN nb.lsp :
          /\ nb.lsp[p].sw = x.w.nb.lsp[p].sw
          /\ nb.lsp[p].addr = x.w.nb.lsp[p].addr
          /\ nb.lsp[p].ps = x.w.nb.lsp[p].ps

\* a bind in which one of the ownership-stamping commands failed
StampFailed == last.op = "bind" /\ last.hit = "fail" /\ last.fop = "lsp-set-ext"

\* C21: a failure of any ownership-stamping command (tenant-id, vpc-id,
\* created-at, created-by on the logical port) never fails the bind: the
\* bind goes on to the physical attachment and its result is the one it
\* has when stamping succeeds.
C21_StampFailureHarmless ==
    StampFailed => \E inp \in Inputs : SameButStamps(BindUnfaulted(inp))

C21_Witness ==
    /\ StampFailed
    /\ last.ret = "True"
    /\ FullyAttached(last.c)
    /\ LspName(last.c) \notin last.was.lsp
    /\ nb.lsp[LspName(last.c)].created_by = ""

\* the last call was a successful bind of a workload whose logical port
\* existed with addresses and whose namespace had no interface, and the
\* bind gave it one
BoundToStoredPort ==
    /\ last.op = "bind" /\ last.ret = "True"
    /\ LspName(last.c) \in last.was.lsp
    /\ last.before.nb.lsp[LspName(last.c)].addr # ""
    /\ last.c \notin last.was.eth1
    /\ HasEth1(World, last.c)

\* C22: if lsp-<workload> already exists when Bind is called, Bind
\* configures the workload's interface with the MAC and IP stored on that
\* logical port, not with the supplied or configured ones when they differ:
\* the interface never contradicts the logical port's addresses.
C22_StoredAddressesReused ==
    BoundToStoredPort =>
        /\ Eth1Of(World, last.c).mac \o " " \o Eth1Of(World, last.c).ip
               = last.before.nb.lsp[LspName(last.c)].addr
        /\ nb.lsp[LspName(last.c)].addr
               = Eth1Of(World, last.c).mac \o " " \o Eth1Of(World, last.c).ip

\* C23: if the workload's namespace already has the interface when Bind is
\* called, Bind creates no veth, and if the workload's port is on the bridge
\* Bind leaves it with iface-id=lsp-<workload>, tenant-id, vpc-id and
\* container set on it, whether or not the logical port existed before.
C23_ConnectedBindRepairsIds ==
    (last.op = "bind" /\ last.hit = "none" /\ last.c \in last.was.eth1)
        => /\ ~InLog("ip-link-add", VethName(last.c))
           /\ VethName(last.c) \in last.was.ovs
                 => /\ Has(ovs, VethName(last.c))
                    /\ ovs[VethName(last.c)] = ExtIds(cfg, last.c)

\* C24: in every state reachable during Bind or Reconcile, the states
\* between two commands included (a call killed there leaves such a state),
\* a port the engine added to the bridge for a workload carries
\* iface-id=lsp-<workload>: the port is never on the bridge without its
\* logical-port binding.
C24_NoUnboundPort ==
    (last.op \in {"bind", "reconcile"} /\ VethName(last.c) \notin last.was.ovs
     /\ Has(ovs, VethName(last.c)))
        => ovs[VethName(last.c)].iface_id = LspName(last.c)

\* the workloads of the model from whose name port p is derived
OwnersOf(p) == {c \in Names(cfg) : VethName(c) = p}

\* C25: for any two distinct workload names of the model the derived port
\* names differ, so every port on the bridge belongs to exactly one
\* workload and logical port, and every workload to at most one port.
C25_PortNamesDistinct ==
    /\ \A c1, c2 \in Names(cfg) : c1 # c2 => VethName(c1) # VethName(c2)
    /\ \A p \in DOMAIN ovs : Cardinality(OwnersOf(p)) = 1

\* the last call was a reconcile of a workload that did not run, or that
\* docker inspect failed to find
ReconciledAbsent ==
    /\ last.op = "reconcile"
    /\ \/ ~Running(last.before, last.c) /\ last.hit = "none"
       \/ last.hit = "fail" /\ last.fop = "docker-running"

\* C26: if the workload is not running (or unknown to the runtime), Probe
\* reports every layer false with needs_repair false after the one docker
\* inspect, without querying the namespace, the bridge or the control
\* plane, and Reconcile skips the workload: it issues no mutating command.
C26_NotRunningSkipped ==
    /\ \A c \in Names(cfg) :
          ~Running(World, c) =>
             /\ GetContainerNetworkState(Ctx(World, NoFault), c).state = NoState
             /\ GetContainerNetworkState(Ctx(World, NoFault), c).s.n = 1
    /\ ReconciledAbsent =>
             /\ last.pre.exists => last.hit = "fail"
             /\ last.log = <<>>
             /\ last.same
             /\ last.ret = "False"

\* a stopped workload whose logical port is still there is reconciled
C26_Witness ==
    /\ ReconciledAbsent
    /\ ~Running(World, last.c)
    /\ LspName(last.c) \in last.was.lsp
    /\ last.pre = NoState
    /\ last.ret = "False"

\* nothing was changed from outside the program and no call was killed:
\* the state is the outcome of calls of the program, commands of which may
\* have failed
OnlyCalls == budget.env = MaxEnv /\ last.hit # "kill" /\ last.prev.hit # "kill"

\* C27: after any sequence of Bind, Reconcile and ReconcileAll calls,
\* including ones in which a command failed, whenever Probe reports a
\* workload healthy its port on the bridge has iface-id lsp-<workload> and
\* its logical port has addresses and port security set.
C27_HealthyMeansBound ==
    OnlyCalls =>
        \A c \in Names(cfg) :
            AllLayers(ProbeOf(World, c)) =>
                /\ BoundOnBridge(c)
                /\ nb.lsp[LspName(c)].addr # ""
                /\ nb.lsp[LspName(c)].ps # Unset

\* C28: after every successful Reconcile or Bind of a workload the MAC and
\* IP of the namespace interface are the MAC and IP in the addresses of
\* lsp-<workload>, with a configured MAC and with a generated one.
C28_InterfaceMatchesPort ==
    (OnlyCalls /\ last.op \in {"bind", "reconcile"} /\ last.ret = "True"
     /\ last.hit = "none")
        => /\ HasEth1(World, last.c)
           /\ Has(nb.lsp, LspName(last.c))
           /\ nb.lsp[LspName(last.c)].addr
                 = Eth1Of(World, last.c).mac \o " " \o Eth1Of(World, last.c).ip

\* the commands that create or delete a port of the bridge, a logical
\* port, a veth pair or a namespace interface
Churn ==
    {"ovs-add-port", "ovs-del-port", "lsp-add", "lsp-del", "ip-link-add", "ip-link-del",
     "ns-link-del", "ip-link-netns"}

\* C29: if a reconcile_all ends with every configured workload healthy and
\* nothing changes out of band, the next reconcile_all deletes and creates
\* no port of the bridge, logical port, veth or namespace interface, for
\* every configured workload, those with a veth-tg-<last character> port
\* included.
C29_ReconcileAllIdempotent ==
    (/\ last.op = "reconcile_all" /\ last.hit = "none"
     /\ last.prev.op = "reconcile_all"
     /\ \A c \in Names(cfg) : AllLayers(ProbeOf(last.before, c)))
        => \A i \in 1..Len(last.log) : last.log[i][1] \notin Churn

\* a bind of the workload that the call before it bound with success
BindRepeated ==
    /\ last.op = "bind" /\ last.hit = "none"
    /\ last.prev.op = "bind" /\ last.prev.c = last.c /\ last.prev.ret = "True"

\* C30: a second Bind with the same arguments right after a successful
\* Bind, with no out-of-band change, issues no mutating command on the
\* logical port, the veth or the namespace, adds no second port to the
\* bridge, and returns success.
C30_BindIdempotent ==
    BindRepeated => (last.log = <<>> /\ last.same /\ last.ret = "True")

C30_Witness ==
    /\ BindRepeated
    /\ last.c = "traffic-gen-a"
    /\ FullyAttached(last.c)
    /\ last.ret = "True"
    /\ Cardinality(DOMAIN ovs) = 1

\* bind_container_to_ovn called for workload c as it stands in the stores,
\* every command working
BindNow(c, inp) ==
    BindContainerToOvn(Ctx(World, NoFault), cfg, c, Conf(cfg, c).switch, Conf(cfg, c).ip,
                       Conf(cfg, c).mac, inp)

\* C31: bind checks that the workload runs before it changes anything:
\* called for a workload that is not running it returns False and has
\* created no logical port, no veth pair and no port on the bridge
C31_BindChecksRunningFirst ==
    \A c \in Names(cfg) : \A inp \in Inputs :
        ~Running(World, c) =>
            /\ BindNow(c, inp).ret = "False"
            /\ DOMAIN BindNow(c, inp).w.nb.lsp \subseteq DOMAIN nb.lsp
            /\ DOMAIN BindNow(c, inp).w.veth \subseteq DOMAIN veth
            /\ DOMAIN BindNow(c, inp).w.ovs \subseteq DOMAIN ovs

\* the router-to-switch connections of the model: each VPC router to each of
\* its switches and to the transit switch, the gateway router to the transit
\* switch
Connections ==
    UNION {{[router |-> cfg.vpcs[v].router, switch |-> cfg.vpcs[v].switches[i].name] :
                i \in 1..Len(cfg.vpcs[v].switches)}
           \cup {[router |-> cfg.vpcs[v].router, switch |-> "ls-transit"]} :
           v \in 1..Len(cfg.vpcs)}
    \cup {[router |-> cfg.gateway.name, switch |-> "ls-transit"]}

\* object name of table kind was in the control plane when the i-th mutating
\* command of the last call was issued: it was there before the call, or
\* the call had created it with addop
ExistedAt(kind, addop, name, i) ==
    \/ name \in DOMAIN last.before.nb[kind]
    \/ \E j \in 1..(i - 1) : last.log[j] = <<addop, name>>

\* C32: setup_topology issues its creates in dependency order: a router
\* port is added only when its router exists, a switch port of a connection
\* only when its switch and the router port it names exist, and a route only
\* when every connection of the model has its router port and switch port
C32_CreatesInDependencyOrder ==
    last.op = "setup" =>
        \A i \in 1..Len(last.log) : \A k \in Connections :
            /\ last.log[i] = <<"lrp-add", k.router \o "-" \o k.switch>>
                    => ExistedAt("lr", "lr-add", k.router, i)
            /\ last.log[i] = <<"lsp-add", k.switch \o "-" \o k.router>>
                    => /\ ExistedAt("ls", "ls-add", k.switch, i)
                       /\ ExistedAt("lrp", "lrp-add", k.router \o "-" \o k.switch, i)
            /\ last.log[i][1] = "lr-route-add"
                    => /\ ExistedAt("lrp", "lrp-add", k.router \o "-" \o k.switch, i)
                       /\ ExistedAt("lsp", "lsp-add", k.switch \o "-" \o k.router, i)

\* a build from an empty control plane that created routers, router ports,
\* switch ports and routes, and one that found part of them and created the
\* rest
C32_Witness ==
    /\ last.op = "setup" /\ last.ret = "none"
    /\ last.prev.op = "setup" /\ last.prev.ret = "raise"
    /\ last.before.nb.lr # << >>
    /\ \E i, j \in 1..Len(last.log) :
          i < j /\ last.log[i][1] = "lrp-add" /\ last.log[j][1] = "lr-route-add"
    /\ Cardinality(DOMAIN nb.lrp) = Cardinality(Connections)

\* the deletes the repair branch owes for a probe result st of workload c,
\* in their order, as the log records them
Teardown(c, st) ==
    (IF st.has_interface THEN << <<"ns-link-del", c>> >> ELSE << >>)
    \o (IF st.ovs_port_exists THEN << <<"ovs-del-port", VethName(c)>> >> ELSE << >>)
    \o << <<"ip-link-del", VethName(c)>> >>
    \o (IF st.ovn_port_exists THEN << <<"lsp-del", LspName(c)>> >> ELSE << >>)

IsPrefix(a, b) == Len(a) <= Len(b) /\ SubSeq(b, 1, Len(a)) = a

\* what the probe of the last call can have seen: what was there, or, if
\* the command made to fail is one the probe issues, that without the layer
\* the command looks at
ProbeMaySee ==
    {last.pre}
    \cup (IF last.fop = "docker-exec-link-show"
          THEN {[last.pre EXCEPT !.has_interface = FALSE]} ELSE {})
    \cup (IF last.fop = "ovs-list-ports"
          THEN {[last.pre EXCEPT !.ovs_port_exists = FALSE]} ELSE {})
    \cup (IF last.fop = "lsp-get-addresses"
          THEN {[last.pre EXCEPT !.ovn_port_exists = FALSE]} ELSE {})

\* C33: a reconcile that repairs issues, before any other mutating command,
\* the deletes of the namespace interface, the bridge port, the host veth
\* and the logical port in this order, each of the three conditional ones
\* exactly if the probe saw the artifact and the host veth delete always;
\* every create therefore comes after all of them (a killed reconcile stops
\* somewhere in this sequence or after it)
C33_TeardownBeforeCreate ==
    (last.op = "reconcile" /\ last.log # << >>) =>
        \E st \in ProbeMaySee :
            \/ IsPrefix(Teardown(last.c, st), last.log)
            \/ last.hit = "kill" /\ IsPrefix(last.log, Teardown(last.c, st))

\* a repair of a workload whose logical port was missing: three deletes,
\* then the creates
C33_Witness ==
    /\ last.op = "reconcile" /\ last.hit = "none" /\ last.ret = "True"
    /\ last.pre.has_interface /\ last.pre.ovs_port_exists /\ ~last.pre.ovn_port_exists
    /\ SubSeq(last.log, 1, 3) = << <<"ns-link-del", last.c>>,
                                   <<"ovs-del-port", VethName(last.c)>>,
                                   <<"ip-link-del", VethName(last.c)>> >>
    /\ \E i \in 4..Len(last.log) : last.log[i] = <<"lsp-add", LspName(last.c)>>

\* the parts of the stores that belong to the topology and to others: the
\* routers, switches, router ports and routes, the logical ports that are
\* of type router or not named lsp-..., the bridge ports not named veth-...
FrameOf(w) ==
    [lr |-> w.nb.lr, ls |-> w.nb.ls, lrp |-> w.nb.lrp, routes |-> w.nb.routes,
     lsp |-> [p \in {q \in DOMAIN w.nb.lsp :
                        w.nb.lsp[q].type = "router" \/ ~StartsWith(q, "lsp-")}
              |-> w.nb.lsp[p]],
     ovs |-> [p \in {q \in DOMAIN w.ovs : ~StartsWith(q, "veth-")} |-> w.ovs[p]]]

\* C34: reconcile_container and reconcile_all leave every logical router,
\* logical switch, router port, router-type switch port and route as it
\* was, and every port of the bridge that is not named veth-... (tunnel
\* ports, tap ports); the GC phase removes only bridge ports named veth-...
\* and logical ports named lsp-...
C34_ReconcileFrame ==
    last.op \in {"reconcile", "reconcile_all"} =>
        /\ FrameOf(World) = FrameOf(last.before)
        /\ \A p \in DOMAIN last.before.ovs \ last.gc.ovs : StartsWith(p, "veth-")
        /\ \A p \in DOMAIN last.before.nb.lsp \ last.gc.lsp : StartsWith(p, "lsp-")

\* a pass whose GC phase removed a bridge port and that bound a workload,
\* the tunnel port and the tap port being on the bridge
C34_Witness ==
    /\ last.op = "reconcile_all"
    /\ DOMAIN last.before.ovs \ last.gc.ovs # {}
    /\ \E i \in 1..Len(last.log) : last.log[i][1] = "lsp-add"
    /\ {"geneve-vpc-a-b", "tap-vpc-a-vm"} \subseteq DOMAIN ovs
    /\ DOMAIN nb.lrp # {}

\* pairs of positions of workloads of the model
Pairs == {q \in (1..Len(cfg.containers)) \X (1..Len(cfg.containers)) : q[1] < q[2]}

\* the conditions on the workloads of the model
SharedIp == \E q \in Pairs : cfg.containers[q[1]].ip = cfg.containers[q[2]].ip
\* two workloads have the same configured MAC
SharedMac ==
    \E q \in Pairs : /\ cfg.containers[q[1]].mac # ""
                     /\ cfg.containers[q[1]].mac = cfg.containers[q[2]].mac
UndeclaredHost == \E i \in 1..Len(cfg.containers) : cfg.containers[i].host \notin cfg.hosts
UndeclaredVpc ==
    \E i \in 1..Len(cfg.containers) :
        cfg.containers[i].vpc \notin {cfg.vpcs[v].name : v \in 1..Len(cfg.vpcs)} \cup {"transit"}
\* a VPC CIDR is not a network, or two of them overlap
BadCidrs ==
    \/ \E v \in 1..Len(cfg.vpcs) : ~ParseNet(cfg.vpcs[v].cidr).ok
    \/ \E v, u \in 1..Len(cfg.vpcs) :
          v < u /\ NetOverlaps(ParseNet(cfg.vpcs[v].cidr), ParseNet(cfg.vpcs[u].cidr))

\* every error names a workload or a VPC of the model
ErrorsNameItems ==
    \A i \in 1..Len(last.ret) :
        last.ret[i][2] \in {cfg.containers[k].name : k \in 1..Len(cfg.containers)}
                           \cup {cfg.vpcs[v].name : v \in 1..Len(cfg.vpcs)}

\* C35: validate_config returns no error if and only if no two
\* workloads share an IP, no two share a MAC, every host and every VPC named
\* by a workload is declared (or the VPC is transit) and the VPC CIDRs are
\* valid and pairwise disjoint; otherwise it returns errors naming items
C35_ValidateIff ==
    last.op = "validate" =>
        /\ (last.ret = << >>) <=>
                ~(SharedIp \/ SharedMac \/ UndeclaredHost \/ UndeclaredVpc \/ BadCidrs)
        /\ ErrorsNameItems

\* C36: a reconcile_all that returns has counted every configured workload
\* once, as a success or as a failure: the two counters add up to the
\* number of configured workloads; it returns True exactly if fail_count is
\* zero; and every configured workload that is not running is among the
\* failures
C36_EveryWorkloadCounted ==
    (last.op = "reconcile_all" /\ last.ret \in {"True", "False"}) =>
        /\ last.counts.success + last.counts.fail = Len(cfg.containers)
        /\ (last.ret = "True") <=> (last.counts.fail = 0)
        /\ last.counts.fail >= Cardinality({c \in Names(cfg) : ~Running(last.before, c)})

\* a pass over three workloads of which one is stopped
C36_Witness ==
    /\ last.op = "reconcile_all" /\ last.ret = "False" /\ last.hit = "none"
    /\ Cardinality({c \in Names(cfg) : ~Running(last.before, c)}) = 1
    /\ last.counts = [success |-> 2, fail |-> 1]

\* what a build is compared by: the routers and switches by name, the
\* router ports with their router, MAC and IP, the routes
TopologyOf(n) == [lr |-> DOMAIN n.lr, ls |-> DOMAIN n.ls, lrp |-> n.lrp, routes |-> n.routes]

\* C37: for the two-VPC model of the lab, the hardcoded builder run on an
\* empty control plane leaves the routers, switches, router ports (MAC and
\* IP) and routes (next hops) that the configuration-driven builder leaves
C37_BuildersAgree ==
    (last.op = "setup-hardcoded" /\ last.hit = "none" /\ last.before.nb = EmptyNb) =>
        TopologyOf(nb) = TopologyOf(SetupTopology(Ctx(last.before, NoFault), cfg).w.nb)

\* C38: the last octet of the transit IP computed for each VPC of the model
\* lies in 1..254, is neither the gateway router's 1 nor the egress port's
\* 254, and differs between any two VPCs of the model
C38_TransitOctets ==
    last.op = "setup" =>
        \A v \in 1..Len(cfg.vpcs) :
            /\ TransitOctet(cfg.vpcs[v].name) \in 2..253
            /\ \A u \in 1..Len(cfg.vpcs) :
                  u # v => TransitOctet(cfg.vpcs[u].name) # TransitOctet(cfg.vpcs[v].name)

\* C39: with several worker threads sending at once, the live child
\* processes tracked in active_processes never number more than max_processes
C39_SlotsNeverExceeded ==
    Cardinality({p \in active_processes : thread[p].proc = "running"}) <= max_processes

=============================================================================
